---------------------------- MODULE Spec2Model ----------------------------
(***************************************************************************)
(* A model of the QR Code symbol encoder of src/src/QrCodeGenerator.ts:    *)
(* the QrCodeGenerator object (its fields qrCode, version, ecLevel, data), *)
(* the steps of generate() and the pure helpers they call.                 *)
(*                                                                         *)
(* Conventions.  A bit string of the source ("0"/"1" characters) is a      *)
(* sequence of 0/1, first character first.  A Uint8Array or number[] is a  *)
(* sequence of naturals, the source's index k being index k + 1.  The      *)
(* matrix keeps the source's indices: qrCode[y][x] with x, y in 0..N-1.    *)
(* A string (the message) is the sequence of its Unicode code points.      *)
(***************************************************************************)
EXTENDS Integers, Sequences, FiniteSets, TLC

\* Row/column centres of the alignment patterns; entry v is for version v.
ALIGNMENT_PATTERN_POSITIONS ==
  <<
    <<>>,
    <<6, 18>>,
    <<6, 22>>,
    <<6, 26>>,
    <<6, 30>>,
    <<6, 34>>,
    <<6, 22, 38>>,
    <<6, 24, 42>>,
    <<6, 26, 46>>,
    <<6, 28, 50>>,
    <<6, 30, 54>>,
    <<6, 32, 58>>,
    <<6, 34, 62>>,
    <<6, 26, 46, 66>>,
    <<6, 26, 48, 70>>,
    <<6, 26, 50, 74>>,
    <<6, 30, 54, 78>>,
    <<6, 30, 56, 82>>,
    <<6, 30, 58, 86>>,
    <<6, 34, 62, 90>>,
    <<6, 28, 50, 72, 94>>,
    <<6, 26, 50, 74, 98>>,
    <<6, 30, 54, 78, 102>>,
    <<6, 28, 54, 80, 106>>,
    <<6, 32, 58, 84, 110>>,
    <<6, 30, 58, 86, 114>>,
    <<6, 34, 62, 90, 118>>,
    <<6, 26, 50, 74, 98, 122>>,
    <<6, 30, 54, 78, 102, 126>>,
    <<6, 26, 52, 78, 104, 130>>,
    <<6, 30, 56, 82, 108, 134>>,
    <<6, 34, 60, 86, 112, 138>>,
    <<6, 30, 58, 86, 114, 142>>,
    <<6, 34, 62, 90, 118, 146>>,
    <<6, 30, 54, 78, 102, 126, 150>>,
    <<6, 24, 50, 76, 102, 128, 154>>,
    <<6, 28, 54, 80, 106, 132, 158>>,
    <<6, 32, 58, 84, 110, 136, 162>>,
    <<6, 26, 54, 82, 110, 138, 166>>,
    <<6, 30, 58, 86, 114, 142, 170>>
  >>

\* Data capacity in bits; DATA_CAPACITIES[v][ecLevel + 1].
DATA_CAPACITIES ==
  <<
    <<152, 128, 104, 72>>,
    <<272, 224, 176, 128>>,
    <<440, 352, 272, 208>>,
    <<640, 512, 384, 288>>,
    <<864, 688, 496, 368>>,
    <<1088, 864, 608, 480>>,
    <<1248, 992, 704, 528>>,
    <<1552, 1232, 880, 688>>,
    <<1856, 1456, 1056, 800>>,
    <<2192, 1728, 1232, 976>>,
    <<2592, 2032, 1440, 1120>>,
    <<2960, 2320, 1648, 1264>>,
    <<3424, 2672, 1952, 1440>>,
    <<3688, 2920, 2088, 1576>>,
    <<4184, 3320, 2360, 1784>>,
    <<4712, 3624, 2600, 2024>>,
    <<5176, 4056, 2936, 2264>>,
    <<5768, 4504, 3176, 2504>>,
    <<6360, 5016, 3560, 2728>>,
    <<6888, 5352, 3880, 3080>>,
    <<7456, 5712, 4096, 3248>>,
    <<8048, 6256, 4544, 3536>>,
    <<8752, 6880, 4912, 3712>>,
    <<9392, 7312, 5312, 4112>>,
    <<10208, 8000, 5744, 4304>>,
    <<10960, 8496, 6032, 4768>>,
    <<11744, 9024, 6464, 5024>>,
    <<12248, 9544, 6968, 5288>>,
    <<13048, 10136, 7288, 5608>>,
    <<13880, 10984, 7880, 5960>>,
    <<14744, 11640, 8264, 6344>>,
    <<15640, 12328, 8920, 6760>>,
    <<16568, 13048, 9368, 7208>>,
    <<17528, 13800, 9848, 7688>>,
    <<18448, 14496, 10288, 7888>>,
    <<19472, 15312, 10832, 8432>>,
    <<20528, 15936, 11408, 8768>>,
    <<21616, 16816, 12016, 9136>>,
    <<22496, 17728, 12656, 9776>>,
    <<23648, 18672, 13328, 10208>>
  >>

\* <<group1BlockSize, group1BlockCount, group2BlockSize, group2BlockCount>>
\* at DATA_CODEWORDS_PER_BLOCK[v][ecLevel + 1].
DATA_CODEWORDS_PER_BLOCK ==
  <<
    <<<<19, 1, 0, 0>>, <<16, 1, 0, 0>>, <<13, 1, 0, 0>>, <<9, 1, 0, 0>>>>,
    <<<<34, 1, 0, 0>>, <<28, 1, 0, 0>>, <<22, 1, 0, 0>>, <<16, 1, 0, 0>>>>,
    <<<<55, 1, 0, 0>>, <<44, 1, 0, 0>>, <<17, 2, 0, 0>>, <<13, 2, 0, 0>>>>,
    <<<<80, 1, 0, 0>>, <<32, 2, 0, 0>>, <<24, 2, 0, 0>>, <<9, 4, 0, 0>>>>,
    <<<<108, 1, 0, 0>>, <<43, 2, 0, 0>>, <<15, 2, 16, 2>>, <<11, 2, 12, 2>>>>,
    <<<<68, 2, 0, 0>>, <<27, 4, 0, 0>>, <<19, 4, 0, 0>>, <<15, 4, 0, 0>>>>,
    <<<<78, 2, 0, 0>>, <<31, 4, 0, 0>>, <<14, 2, 15, 4>>, <<13, 4, 14, 1>>>>,
    <<<<97, 2, 0, 0>>, <<38, 2, 39, 2>>, <<18, 4, 19, 2>>, <<14, 4, 15, 2>>>>,
    <<<<116, 2, 0, 0>>, <<36, 3, 37, 2>>, <<16, 4, 17, 4>>, <<12, 4, 13, 4>>>>,
    <<<<68, 2, 69, 2>>, <<43, 4, 44, 1>>, <<19, 6, 20, 2>>, <<15, 6, 16, 2>>>>,
    <<<<81, 4, 0, 0>>, <<50, 1, 51, 4>>, <<22, 4, 23, 4>>, <<12, 3, 13, 8>>>>,
    <<<<92, 2, 93, 2>>, <<36, 6, 37, 2>>, <<20, 4, 21, 6>>, <<14, 7, 15, 4>>>>,
    <<<<107, 4, 0, 0>>, <<37, 8, 38, 1>>, <<20, 8, 21, 4>>, <<11, 12, 12, 4>>>>,
    <<<<115, 3, 116, 1>>, <<40, 4, 41, 5>>, <<16, 11, 17, 5>>, <<12, 11, 13, 5>>>>,
    <<<<87, 5, 88, 1>>, <<41, 5, 42, 5>>, <<24, 5, 25, 7>>, <<12, 11, 13, 7>>>>,
    <<<<98, 5, 99, 1>>, <<45, 7, 46, 3>>, <<19, 15, 20, 2>>, <<15, 3, 16, 13>>>>,
    <<<<107, 1, 108, 5>>, <<46, 10, 47, 1>>, <<22, 1, 23, 15>>, <<14, 2, 15, 17>>>>,
    <<<<120, 5, 121, 1>>, <<43, 9, 44, 4>>, <<22, 17, 23, 1>>, <<14, 2, 15, 19>>>>,
    <<<<113, 3, 114, 4>>, <<44, 3, 45, 11>>, <<21, 17, 22, 4>>, <<13, 9, 14, 16>>>>,
    <<<<107, 3, 108, 5>>, <<41, 3, 42, 13>>, <<24, 15, 25, 5>>, <<15, 15, 16, 10>>>>,
    <<<<116, 4, 117, 4>>, <<42, 17, 0, 0>>, <<22, 17, 23, 6>>, <<16, 19, 17, 6>>>>,
    <<<<111, 2, 112, 7>>, <<46, 17, 0, 0>>, <<24, 7, 25, 16>>, <<13, 34, 0, 0>>>>,
    <<<<121, 4, 122, 5>>, <<47, 4, 48, 14>>, <<24, 11, 25, 14>>, <<15, 16, 16, 14>>>>,
    <<<<117, 6, 118, 4>>, <<45, 6, 46, 14>>, <<24, 11, 25, 16>>, <<16, 30, 17, 2>>>>,
    <<<<106, 8, 107, 4>>, <<47, 8, 48, 13>>, <<24, 7, 25, 22>>, <<15, 22, 16, 13>>>>,
    <<<<114, 10, 115, 2>>, <<46, 19, 47, 4>>, <<22, 28, 23, 6>>, <<16, 33, 17, 4>>>>,
    <<<<122, 8, 123, 4>>, <<45, 22, 46, 3>>, <<23, 8, 24, 26>>, <<15, 12, 16, 28>>>>,
    <<<<117, 3, 118, 10>>, <<45, 3, 46, 23>>, <<24, 4, 25, 31>>, <<15, 11, 16, 31>>>>,
    <<<<116, 7, 117, 7>>, <<45, 21, 46, 7>>, <<23, 1, 24, 37>>, <<15, 19, 16, 26>>>>,
    <<<<115, 5, 116, 10>>, <<47, 19, 48, 10>>, <<24, 15, 25, 25>>, <<15, 23, 16, 25>>>>,
    <<<<115, 13, 116, 3>>, <<46, 2, 47, 29>>, <<24, 42, 25, 1>>, <<15, 23, 16, 28>>>>,
    <<<<115, 17, 0, 0>>, <<46, 10, 47, 23>>, <<24, 10, 25, 35>>, <<15, 19, 16, 35>>>>,
    <<<<115, 17, 116, 1>>, <<46, 14, 47, 21>>, <<24, 29, 25, 19>>, <<15, 11, 16, 46>>>>,
    <<<<115, 13, 116, 6>>, <<46, 14, 47, 23>>, <<24, 44, 25, 7>>, <<16, 59, 17, 1>>>>,
    <<<<121, 12, 122, 7>>, <<47, 12, 48, 26>>, <<24, 39, 25, 14>>, <<15, 22, 16, 41>>>>,
    <<<<121, 6, 122, 14>>, <<47, 6, 48, 34>>, <<24, 46, 25, 10>>, <<15, 2, 16, 64>>>>,
    <<<<122, 17, 123, 4>>, <<46, 29, 47, 14>>, <<24, 49, 25, 10>>, <<15, 24, 16, 46>>>>,
    <<<<122, 4, 123, 18>>, <<46, 13, 47, 32>>, <<24, 48, 25, 14>>, <<15, 42, 16, 32>>>>,
    <<<<117, 20, 118, 4>>, <<47, 40, 48, 7>>, <<24, 43, 25, 22>>, <<15, 10, 16, 67>>>>,
    <<<<118, 19, 119, 6>>, <<47, 18, 48, 31>>, <<24, 34, 25, 34>>, <<15, 20, 16, 61>>>>
  >>

\* Error correction codewords per block; EC_CODEWORDS_PER_BLOCK[v][ecLevel + 1].
EC_CODEWORDS_PER_BLOCK ==
  <<
    <<7, 10, 13, 17>>,
    <<10, 16, 22, 28>>,
    <<15, 26, 18, 22>>,
    <<20, 18, 26, 16>>,
    <<26, 24, 18, 22>>,
    <<18, 16, 24, 28>>,
    <<20, 18, 18, 26>>,
    <<24, 22, 22, 26>>,
    <<30, 22, 20, 24>>,
    <<18, 26, 24, 28>>,
    <<20, 30, 28, 24>>,
    <<24, 22, 26, 28>>,
    <<26, 22, 24, 22>>,
    <<30, 24, 20, 24>>,
    <<22, 24, 30, 24>>,
    <<24, 28, 24, 30>>,
    <<28, 28, 28, 28>>,
    <<30, 26, 28, 28>>,
    <<28, 26, 26, 26>>,
    <<28, 26, 30, 28>>,
    <<28, 26, 28, 30>>,
    <<28, 28, 30, 24>>,
    <<30, 28, 30, 30>>,
    <<30, 28, 30, 30>>,
    <<26, 28, 30, 30>>,
    <<28, 28, 28, 30>>,
    <<30, 28, 30, 30>>,
    <<30, 28, 30, 30>>,
    <<30, 28, 30, 30>>,
    <<30, 28, 30, 30>>,
    <<30, 28, 30, 30>>,
    <<30, 28, 30, 30>>,
    <<30, 28, 30, 30>>,
    <<30, 28, 30, 30>>,
    <<30, 28, 30, 30>>,
    <<30, 28, 30, 30>>,
    <<30, 28, 30, 30>>,
    <<30, 28, 30, 30>>,
    <<30, 28, 30, 30>>,
    <<30, 28, 30, 30>>
  >>

\* The 32 format strings (bit strings as sequences of 0/1, first character first);
\* entry k + 1 is the source's FORMAT_INFORMATION[k].
FORMAT_INFORMATION ==
  <<
    <<1, 0, 1, 0, 1, 0, 0, 0, 0, 0, 1, 0, 0, 1, 0>>,
    <<1, 0, 1, 0, 0, 0, 1, 0, 0, 1, 0, 0, 1, 0, 1>>,
    <<1, 0, 1, 1, 1, 1, 0, 0, 1, 1, 1, 1, 1, 0, 0>>,
    <<1, 0, 1, 1, 0, 1, 1, 0, 1, 0, 0, 1, 0, 1, 1>>,
    <<1, 0, 0, 0, 1, 0, 1, 1, 1, 1, 1, 1, 0, 0, 1>>,
    <<1, 0, 0, 0, 0, 0, 0, 1, 1, 0, 0, 1, 1, 1, 0>>,
    <<1, 0, 0, 1, 1, 1, 1, 1, 0, 0, 1, 0, 1, 1, 1>>,
    <<1, 0, 0, 1, 0, 1, 0, 1, 0, 1, 0, 0, 0, 0, 0>>,
    <<1, 1, 1, 0, 1, 1, 1, 1, 1, 0, 0, 0, 1, 0, 0>>,
    <<1, 1, 1, 0, 0, 1, 0, 1, 1, 1, 1, 0, 0, 1, 1>>,
    <<1, 1, 1, 1, 1, 0, 1, 1, 0, 1, 0, 1, 0, 1, 0>>,
    <<1, 1, 1, 1, 0, 0, 0, 1, 0, 0, 1, 1, 1, 0, 1>>,
    <<1, 1, 0, 0, 1, 1, 0, 0, 0, 1, 0, 1, 1, 1, 1>>,
    <<1, 1, 0, 0, 0, 1, 1, 0, 0, 0, 1, 1, 0, 0, 0>>,
    <<1, 1, 0, 1, 1, 0, 0, 0, 1, 0, 0, 0, 0, 0, 1>>,
    <<1, 1, 0, 1, 0, 0, 1, 0, 1, 1, 1, 0, 1, 1, 0>>,
    <<0, 0, 1, 0, 1, 1, 0, 1, 0, 0, 0, 1, 0, 0, 1>>,
    <<0, 0, 1, 0, 0, 1, 1, 1, 0, 1, 1, 1, 1, 1, 0>>,
    <<0, 0, 1, 1, 1, 0, 0, 1, 1, 1, 0, 0, 1, 1, 1>>,
    <<0, 0, 1, 1, 0, 0, 1, 1, 1, 0, 1, 0, 0, 0, 0>>,
    <<0, 0, 0, 0, 1, 1, 1, 0, 1, 1, 0, 0, 0, 1, 0>>,
    <<0, 0, 0, 0, 0, 1, 0, 0, 1, 0, 1, 0, 1, 0, 1>>,
    <<0, 0, 0, 1, 1, 0, 1, 0, 0, 0, 0, 1, 1, 0, 0>>,
    <<0, 0, 0, 1, 0, 0, 0, 0, 0, 1, 1, 1, 0, 1, 1>>,
    <<0, 1, 1, 0, 1, 0, 1, 0, 1, 0, 1, 1, 1, 1, 1>>,
    <<0, 1, 1, 0, 0, 0, 0, 0, 1, 1, 0, 1, 0, 0, 0>>,
    <<0, 1, 1, 1, 1, 1, 1, 0, 0, 1, 1, 0, 0, 0, 1>>,
    <<0, 1, 1, 1, 0, 1, 0, 0, 0, 0, 0, 0, 1, 1, 0>>,
    <<0, 1, 0, 0, 1, 0, 0, 1, 0, 1, 1, 0, 1, 0, 0>>,
    <<0, 1, 0, 0, 0, 0, 1, 1, 0, 0, 0, 0, 0, 1, 1>>,
    <<0, 1, 0, 1, 1, 1, 0, 1, 1, 0, 1, 1, 0, 1, 0>>,
    <<0, 1, 0, 1, 0, 1, 1, 1, 1, 1, 0, 1, 1, 0, 1>>
  >>

\* The 34 version strings; entry k + 1 is the source's VERSION_INFORMATION[k].
VERSION_INFORMATION ==
  <<
    <<0, 0, 0, 1, 1, 1, 1, 1, 0, 0, 1, 0, 0, 1, 0, 1, 0, 0>>,
    <<0, 0, 1, 0, 0, 0, 0, 1, 0, 1, 1, 0, 1, 1, 1, 1, 0, 0>>,
    <<0, 0, 1, 0, 0, 1, 1, 0, 1, 0, 1, 0, 0, 1, 1, 0, 0, 1>>,
    <<0, 0, 1, 0, 1, 0, 0, 1, 0, 0, 1, 1, 0, 1, 0, 0, 1, 1>>,
    <<0, 0, 1, 0, 1, 1, 1, 0, 1, 1, 1, 1, 1, 1, 0, 1, 1, 0>>,
    <<0, 0, 1, 1, 0, 0, 0, 1, 1, 1, 0, 1, 1, 0, 0, 0, 1, 0>>,
    <<0, 0, 1, 1, 0, 1, 1, 0, 0, 0, 0, 1, 0, 0, 0, 1, 1, 1>>,
    <<0, 0, 1, 1, 1, 0, 0, 1, 1, 0, 0, 0, 0, 0, 1, 1, 0, 1>>,
    <<0, 0, 1, 1, 1, 1, 1, 0, 0, 1, 0, 0, 1, 0, 1, 0, 0, 0>>,
    <<0, 1, 0, 0, 0, 0, 1, 0, 1, 1, 0, 1, 1, 1, 1, 0, 0, 0>>,
    <<0, 1, 0, 0, 0, 1, 0, 1, 0, 0, 0, 1, 0, 1, 1, 1, 0, 1>>,
    <<0, 1, 0, 0, 1, 0, 1, 0, 1, 0, 0, 0, 0, 1, 0, 1, 1, 1>>,
    <<0, 1, 0, 0, 1, 1, 0, 1, 0, 1, 0, 0, 1, 1, 0, 0, 1, 0>>,
    <<0, 1, 0, 1, 0, 0, 1, 0, 0, 1, 1, 0, 1, 0, 0, 1, 1, 0>>,
    <<0, 1, 0, 1, 0, 1, 0, 1, 1, 0, 1, 0, 0, 0, 0, 0, 1, 1>>,
    <<0, 1, 0, 1, 1, 0, 1, 0, 0, 0, 1, 1, 0, 0, 1, 0, 0, 1>>,
    <<0, 1, 0, 1, 1, 1, 0, 1, 1, 1, 1, 1, 1, 0, 1, 1, 0, 0>>,
    <<0, 1, 1, 0, 0, 0, 1, 1, 1, 0, 1, 1, 0, 0, 0, 1, 0, 0>>,
    <<0, 1, 1, 0, 0, 1, 0, 0, 0, 1, 1, 1, 1, 0, 0, 0, 0, 1>>,
    <<0, 1, 1, 0, 1, 0, 1, 1, 1, 1, 1, 0, 1, 0, 1, 0, 1, 1>>,
    <<0, 1, 1, 0, 1, 1, 0, 0, 0, 0, 1, 0, 0, 0, 1, 1, 1, 0>>,
    <<0, 1, 1, 1, 0, 0, 1, 1, 0, 0, 0, 0, 0, 1, 1, 0, 1, 0>>,
    <<0, 1, 1, 1, 0, 1, 0, 0, 1, 1, 0, 0, 1, 1, 1, 1, 1, 1>>,
    <<0, 1, 1, 1, 1, 0, 1, 1, 0, 1, 0, 1, 1, 1, 0, 1, 0, 1>>,
    <<0, 1, 1, 1, 1, 1, 0, 0, 1, 0, 0, 1, 0, 1, 0, 0, 0, 0>>,
    <<1, 0, 0, 0, 0, 0, 1, 0, 0, 1, 1, 1, 0, 1, 0, 1, 0, 1>>,
    <<1, 0, 0, 0, 0, 1, 0, 1, 1, 0, 1, 1, 1, 1, 0, 0, 0, 0>>,
    <<1, 0, 0, 0, 1, 0, 1, 0, 0, 0, 1, 0, 1, 1, 1, 0, 1, 0>>,
    <<1, 0, 0, 0, 1, 1, 0, 1, 1, 1, 1, 0, 0, 1, 1, 1, 1, 1>>,
    <<1, 0, 0, 1, 0, 0, 1, 0, 1, 1, 0, 0, 0, 0, 1, 0, 1, 1>>,
    <<1, 0, 0, 1, 0, 1, 0, 1, 0, 0, 0, 0, 1, 0, 1, 1, 1, 0>>,
    <<1, 0, 0, 1, 1, 0, 1, 0, 1, 0, 0, 1, 1, 0, 0, 1, 0, 0>>,
    <<1, 0, 0, 1, 1, 1, 0, 1, 0, 1, 0, 1, 0, 0, 0, 0, 0, 1>>,
    <<1, 0, 1, 0, 0, 0, 1, 1, 0, 0, 0, 1, 1, 0, 1, 0, 0, 1>>
  >>

\* FINDER_PATTERN, VERTICAL_SEPARATOR, HORIZONTAL_SEPARATOR, ALIGNMENT_PATTERN:
\* a pattern is a sequence of rows, each row a bit string.
FINDER_PATTERN ==
  << <<1,1,1,1,1,1,1>>, <<1,0,0,0,0,0,1>>, <<1,0,1,1,1,0,1>>, <<1,0,1,1,1,0,1>>,
     <<1,0,1,1,1,0,1>>, <<1,0,0,0,0,0,1>>, <<1,1,1,1,1,1,1>> >>

VERTICAL_SEPARATOR ==
  << <<0>>, <<0>>, <<0>>, <<0>>, <<0>>, <<0>>, <<0>>, <<0>> >>

HORIZONTAL_SEPARATOR ==
  << <<0,0,0,0,0,0,0,0>> >>

ALIGNMENT_PATTERN ==
  << <<1,1,1,1,1>>, <<1,0,0,0,1>>, <<1,0,1,0,1>>, <<1,0,0,0,1>>, <<1,1,1,1,1>> >>

\* EcLevel: L, M, Q, H are 0, 1, 2, 3.
EcLevel == 0..3

-----------------------------------------------------------------------------
(* Strings, numbers and bytes                                              *)

\* n.toString(2): the binary digits of n, most significant first, "0" for 0.
RECURSIVE ToBinary(_)
ToBinary(n) ==
  IF n < 2 THEN <<n>> ELSE ToBinary(n \div 2) \o <<n % 2>>

\* Loops.  A loop "while (cond) body" over the variables st is written
\*   Loop(st, k) == IF ~cond THEN st ELSE IF k = 0 THEN body
\*                  ELSE Loop(Loop(st, k - 1), k - 1)
\* which runs the body while cond holds, at most 2^k times, in order (the
\* unrolling by halves keeps the evaluation shallow).  It is started with
\* k = Fuel(n), n an upper bound of the loop's trip count: 2^Fuel(n) > n.
Fuel(n) == Len(ToBinary(n))

\* s.padStart(w, "0"): zeros in front up to length w; a longer s is kept whole.
PadStart(s, w) ==
  IF Len(s) >= w THEN s ELSE [i \in 1..(w - Len(s)) |-> 0] \o s

\* parseInt(s, 2)
RECURSIVE ParseBinary(_)
ParseBinary(s) ==
  IF Len(s) = 0 THEN 0
  ELSE 2 * ParseBinary(SubSeq(s, 1, Len(s) - 1)) + s[Len(s)]

\* "0".repeat(n)
Zeros(n) == [i \in 1..n |-> 0]

\* strs.slice(lo - 1, hi).join(""): the strings lo..hi of strs, concatenated.
RECURSIVE Join(_, _, _)
Join(strs, lo, hi) ==
  IF lo > hi THEN <<>>
  ELSE IF lo = hi THEN strs[lo]
  ELSE LET mid == (lo + hi) \div 2
       IN  Join(strs, lo, mid) \o Join(strs, mid + 1, hi)

\* The UTF-8 bytes of one code point (what TextEncoder emits for it).
Utf8(cp) ==
  IF cp < 128 THEN <<cp>>
  ELSE IF cp < 2048 THEN <<192 + (cp \div 64), 128 + (cp % 64)>>
  ELSE IF cp < 65536
    THEN <<224 + (cp \div 4096), 128 + ((cp \div 64) % 64), 128 + (cp % 64)>>
  ELSE <<240 + (cp \div 262144), 128 + ((cp \div 4096) % 64),
         128 + ((cp \div 64) % 64), 128 + (cp % 64)>>

\* new TextEncoder().encode(str)
TextEncode(str) ==
  Join([i \in 1..Len(str) |-> Utf8(str[i])], 1, Len(str))

\* bytes.map((byte) => byte.toString(2).padStart(8, "0")).join("")
BytesToBits(bytes) ==
  Join([i \in 1..Len(bytes) |-> PadStart(ToBinary(bytes[i]), 8)], 1, Len(bytes))

\* bits.match(/.{8}/g).map((byte) => parseInt(byte, 2)): the whole groups of
\* eight characters, each read as a binary number.
BitsToCodewords(bits) ==
  [k \in 1..(Len(bits) \div 8) |-> ParseBinary(SubSeq(bits, 8 * (k - 1) + 1, 8 * k))]

-----------------------------------------------------------------------------
(* The data codeword builder                                               *)

\* The largest version: the bound of the explicit branch and of the Auto loop.
MAX_VERSION == 40

\* A header whose character count indicator has 8 bits in every version.
getDataHeaderBitsCount8(v, dataLength) ==
  <<0,1,1,1>> \o <<0>> \o <<0,0,1,1,0,1,0>> \o <<0,1,0,0>>
    \o PadStart(ToBinary(dataLength), 8)

\* A header whose character count indicator has 16 bits in every version.
getDataHeaderBitsCount16(v, dataLength) ==
  <<0,1,1,1>> \o <<0>> \o <<0,0,1,1,0,1,0>> \o <<0,1,0,0>>
    \o PadStart(ToBinary(dataLength), 16)

\* A header that switches to the 16-bit count one version late.
getDataHeaderBitsLate(v, dataLength) ==
  <<0,1,1,1>> \o <<0>> \o <<0,0,1,1,0,1,0>> \o <<0,1,0,0>>
    \o PadStart(ToBinary(dataLength), IF v <= 10 THEN 8 ELSE 16)

getDataHeaderBits(v, dataLength) ==
  <<0,1,1,1>> \o <<0>> \o <<0,0,1,1,0,1,0>> \o <<0,1,0,0>>
    \o PadStart(ToBinary(dataLength), IF v <= 9 THEN 8 ELSE 16)

\* The automatic version selection loop: for (this.version = 1;
\* this.version <= 40; this.version++) { bits = ...; dataCapacity = ...;
\* if (bits.length <= dataCapacity) break; }.  st.version is this.version,
\* st.bits and st.dataCapacity the locals, st.broke whether break was taken.
RECURSIVE AutoVersionLoop(_, _, _, _, _)
AutoVersionLoop(st, e, dataLength, dataBits, k) ==
  IF ~(~st.broke /\ st.version <= MAX_VERSION) THEN st
  ELSE IF k = 0
    THEN LET bits == getDataHeaderBits(st.version, dataLength) \o dataBits
             dataCapacity == DATA_CAPACITIES[st.version][e + 1]
         IN  IF Len(bits) <= dataCapacity
               THEN [version |-> st.version, bits |-> bits,
                     dataCapacity |-> dataCapacity, broke |-> TRUE]
             ELSE [version |-> st.version + 1, bits |-> bits,
                   dataCapacity |-> dataCapacity, broke |-> FALSE]
  ELSE AutoVersionLoop(AutoVersionLoop(st, e, dataLength, dataBits, k - 1),
                       e, dataLength, dataBits, k - 1)

\* A terminator of four zeros whatever room is left.
InsertTerminatorOfFour(bits, dataCapacity) ==
  bits \o <<0,0,0,0>>

\* "Insert terminator bits."
InsertTerminator(bits, dataCapacity) ==
  IF dataCapacity - Len(bits) >= 4 THEN bits \o <<0,0,0,0>>
  ELSE bits \o Zeros(dataCapacity - Len(bits))

\* "Insert padding bits."
InsertPaddingBits(bits) ==
  LET remainder == Len(bits) % 8
  IN  IF remainder # 0 THEN bits \o Zeros(8 - remainder) ELSE bits

\* "Insert padding codewords.": for (let i = 0; bits.length < dataCapacity; i++)
\* bits += i % 2 === 0 ? "11101100" : "00010001".
RECURSIVE PaddingLoop(_, _, _)
PaddingLoop(st, dataCapacity, k) ==
  IF ~(Len(st.bits) < dataCapacity) THEN st
  ELSE IF k = 0
    THEN [bits |-> st.bits \o (IF st.i % 2 = 0 THEN <<1,1,1,0,1,1,0,0>>
                                               ELSE <<0,0,0,1,0,0,0,1>>),
          i |-> st.i + 1]
  ELSE PaddingLoop(PaddingLoop(st, dataCapacity, k - 1), dataCapacity, k - 1)

InsertPaddingCodewords(bits, dataCapacity) ==
  PaddingLoop([bits |-> bits, i |-> 0], dataCapacity, Fuel(dataCapacity \div 8)).bits

\* createDataCodewords() on a generator whose fields are v, e, str.  The
\* value is a record: version is the field this.version when the method
\* returns or throws, threw tells whether it threw the capacity error, and
\* codewords is the returned array (empty when it threw).
createDataCodewords(v, e, str) ==
  LET dataBytes == TextEncode(str)
      dataBits == BytesToBits(dataBytes)
      sel == IF v >= 1 /\ v <= MAX_VERSION
               THEN [version |-> v,
                     bits |-> getDataHeaderBits(v, Len(dataBytes)) \o dataBits,
                     dataCapacity |-> DATA_CAPACITIES[v][e + 1]]
             ELSE AutoVersionLoop(
                    [version |-> 1, bits |-> <<>>, dataCapacity |-> 0, broke |-> FALSE],
                    e, Len(dataBytes), dataBits, Fuel(MAX_VERSION))
  IN  IF Len(sel.bits) > sel.dataCapacity
        THEN [version |-> sel.version, threw |-> TRUE, codewords |-> <<>>]
      ELSE [version |-> sel.version, threw |-> FALSE,
            codewords |-> BitsToCodewords(
              InsertPaddingCodewords(
                InsertPaddingBits(InsertTerminator(sel.bits, sel.dataCapacity)),
                sel.dataCapacity))]

-----------------------------------------------------------------------------
(* GF(256) arithmetic and the Reed-Solomon encoder                         *)

\* a ^ b for 0 <= a, b < 512 (bytes, and x ^ 285 with x < 512): bit i of the
\* result is the sum of the operands' bits i modulo 2.
Xor(a, b) ==
    ((a + b) % 2)
  + 2 * (((a \div 2) + (b \div 2)) % 2)
  + 4 * (((a \div 4) + (b \div 4)) % 2)
  + 8 * (((a \div 8) + (b \div 8)) % 2)
  + 16 * (((a \div 16) + (b \div 16)) % 2)
  + 32 * (((a \div 32) + (b \div 32)) % 2)
  + 64 * (((a \div 64) + (b \div 64)) % 2)
  + 128 * (((a \div 128) + (b \div 128)) % 2)
  + 256 * (((a \div 256) + (b \div 256)) % 2)

\* "Initialize the log and antilog tables": the loop for (let i = 0; i < 255;
\* i++) over the zero-filled EXP_TABLE (512 entries) and LOG_TABLE (256
\* entries), both indexed from 0 as in the source.
RECURSIVE LogTablesLoop(_, _)
LogTablesLoop(st, k) ==
  IF ~(st.i < 255) THEN st
  ELSE IF k = 0
    THEN [EXP |-> [st.EXP EXCEPT ![st.i] = st.x],
          LOG |-> [st.LOG EXCEPT ![st.x] = st.i],
          x |-> IF 2 * st.x >= 256 THEN Xor(2 * st.x, 285) ELSE 2 * st.x,
          i |-> st.i + 1]
  ELSE LogTablesLoop(LogTablesLoop(st, k - 1), k - 1)

LogTables ==
  LogTablesLoop([EXP |-> [i \in 0..511 |-> 0], LOG |-> [i \in 0..255 |-> 0],
                 x |-> 1, i |-> 0], Fuel(255))

\* "Extend the antilog table so we won't need to modulo 255."
EXP_TABLE ==
  [i \in 0..511 |-> IF i < 255 THEN LogTables.EXP[i] ELSE LogTables.EXP[i - 255]]

LOG_TABLE == LogTables.LOG

\* "Multiplies two numbers in GF(256)"
gfMul(x, y) ==
  IF x = 0 \/ y = 0 THEN 0 ELSE EXP_TABLE[LOG_TABLE[x] + LOG_TABLE[y]]

\* polyMul's inner loop: for (let j = 0; j < q.length; j++)
\* product[i + j] ^= gfMul(p[i], q[j]); i, j are the source's indices.
RECURSIVE PolyMulInner(_, _, _, _, _)
PolyMulInner(st, p, q, i, k) ==
  IF ~(st.j < Len(q)) THEN st
  ELSE IF k = 0
    THEN [product |-> [st.product EXCEPT ![i + st.j + 1] =
                         Xor(@, gfMul(p[i + 1], q[st.j + 1]))],
          j |-> st.j + 1]
  ELSE PolyMulInner(PolyMulInner(st, p, q, i, k - 1), p, q, i, k - 1)

\* polyMul's outer loop: for (let i = 0; i < p.length; i++)
RECURSIVE PolyMulOuter(_, _, _, _)
PolyMulOuter(st, p, q, k) ==
  IF ~(st.i < Len(p)) THEN st
  ELSE IF k = 0
    THEN [product |-> PolyMulInner([product |-> st.product, j |-> 0],
                                   p, q, st.i, Fuel(Len(q))).product,
          i |-> st.i + 1]
  ELSE PolyMulOuter(PolyMulOuter(st, p, q, k - 1), p, q, k - 1)

\* "Multiplies two polynomials whose coefficients are in GF(256)"
polyMul(p, q) ==
  PolyMulOuter([product |-> Zeros(Len(p) + Len(q) - 1), i |-> 0], p, q, Fuel(Len(p))).product

\* The generator of one degree: g = [1]; for (let i = 0; i < degree; i++)
\* g = polyMul(g, [1, EXP_TABLE[i]]).
RECURSIVE GeneratorLoop(_, _, _)
GeneratorLoop(st, degree, k) ==
  IF ~(st.i < degree) THEN st
  ELSE IF k = 0
    THEN [g |-> polyMul(st.g, <<1, EXP_TABLE[st.i]>>), i |-> st.i + 1]
  ELSE GeneratorLoop(GeneratorLoop(st, degree, k - 1), degree, k - 1)

\* "Initialize generator polynomials": degrees 0..68, indexed by degree.
GENERATOR_POLYNOMIALS ==
  [degree \in 0..68 |-> GeneratorLoop([g |-> <<1>>, i |-> 0], degree, Fuel(degree)).g]

\* "Remove leading zeros.": while (i < remainder.length && remainder[i] === 0) i++
RECURSIVE LeadingZeros(_, _, _)
LeadingZeros(i, remainder, k) ==
  IF ~(i < Len(remainder) /\ remainder[i + 1] = 0) THEN i
  ELSE IF k = 0 THEN i + 1
  ELSE LeadingZeros(LeadingZeros(i, remainder, k - 1), remainder, k - 1)

\* polyMod's loop: while (remainder.length >= divisor.length) { ... }.
\* remainder[i] ^= ... at an index past the end of a typed array writes
\* nothing, so only the indices the remainder has are changed.
RECURSIVE PolyModLoop(_, _, _)
PolyModLoop(remainder, divisor, k) ==
  IF ~(Len(remainder) >= Len(divisor)) THEN remainder
  ELSE IF k = 0
    THEN LET leading_coeff == remainder[1]
             subtracted ==
               [i \in 1..Len(remainder) |->
                  IF i <= Len(divisor)
                    THEN Xor(remainder[i], gfMul(divisor[i], leading_coeff))
                  ELSE remainder[i]]
             i == LeadingZeros(0, subtracted, Fuel(Len(subtracted)))
         IN  SubSeq(subtracted, i + 1, Len(subtracted))
  ELSE PolyModLoop(PolyModLoop(remainder, divisor, k - 1), divisor, k - 1)

\* "Finds the remainder of the division of two polynomials whose
\* coefficients are in GF(256)"
polyMod(dividend, divisor) ==
  PolyModLoop(dividend, divisor, Fuel(Len(dividend)))

\* An encoder without "Insert leading zeros to reach ecSize if needed."
reedSolomonEncodeUnpadded(blockData, ecSize) ==
  polyMod(blockData \o Zeros(ecSize), GENERATOR_POLYNOMIALS[ecSize])

reedSolomonEncode(blockData, ecSize) ==
  LET genPoly == GENERATOR_POLYNOMIALS[ecSize]
      paddedData == blockData \o Zeros(ecSize)
      ec == polyMod(paddedData, genPoly)
      lenDiff == ecSize - Len(ec)
  IN  IF lenDiff > 0 THEN Zeros(lenDiff) \o ec ELSE ec

\* An interleaving that takes the length of the first block as maxSize.
interleaveToFirstLength(blocks) ==
  LET maxSize == Len(blocks[1])
  IN  Join([i \in 1..maxSize |->
              Join([b \in 1..Len(blocks) |->
                      IF i <= Len(blocks[b]) THEN <<blocks[b][i]>> ELSE <<>>],
                   1, Len(blocks))],
           1, maxSize)

\* for (i < maxSize) for (block of blocks) if (i < block.length) push(block[i])
interleave(blocks) ==
  LET maxSize == Len(blocks[Len(blocks)])
  IN  Join([i \in 1..maxSize |->
              Join([b \in 1..Len(blocks) |->
                      IF i <= Len(blocks[b]) THEN <<blocks[b][i]>> ELSE <<>>],
                   1, Len(blocks))],
           1, maxSize)

\* The array with the elements of s, each computed once (s itself).
ArrayOf(s) == SubSeq(s, 1, Len(s))

\* A split that takes the blocks of group 2 before those of group 1.
SplitBlocksGroup2First(dataCodewords, g) ==
  LET Min(a, b) == IF a < b THEN a ELSE b
      n == Len(dataCodewords)
  IN  [b \in 1..(g[2] + g[4]) |->
         IF b <= g[4]
           THEN SubSeq(dataCodewords, Min(n, (b - 1) * g[3]) + 1, Min(n, b * g[3]))
         ELSE SubSeq(dataCodewords,
                     Min(n, g[4] * g[3] + (b - g[4] - 1) * g[1]) + 1,
                     Min(n, g[4] * g[3] + (b - g[4]) * g[1]))]

\* The data blocks of createCodewords: dataCodewords.splice(0, size) taken
\* group1BlockCount times with group1BlockSize, then group2BlockCount times
\* with group2BlockSize.  splice takes what is left when fewer remain.
SplitBlocks(dataCodewords, g) ==
  LET group1BlockSize == g[1]
      group1BlockCount == g[2]
      group2BlockSize == g[3]
      group2BlockCount == g[4]
      Min(a, b) == IF a < b THEN a ELSE b
      n == Len(dataCodewords)
  IN  [b \in 1..(group1BlockCount + group2BlockCount) |->
         IF b <= group1BlockCount
           THEN SubSeq(dataCodewords,
                       Min(n, (b - 1) * group1BlockSize) + 1,
                       Min(n, b * group1BlockSize))
         ELSE SubSeq(dataCodewords,
                     Min(n, group1BlockCount * group1BlockSize
                              + (b - group1BlockCount - 1) * group2BlockSize) + 1,
                     Min(n, group1BlockCount * group1BlockSize
                              + (b - group1BlockCount) * group2BlockSize))]

\* createCodewords() after createDataCodewords() has returned dataCodewords
\* and left the version field at v.
createCodewords(v, e, dataCodewords) ==
  LET dataBlocks == ArrayOf(SplitBlocks(dataCodewords, DATA_CODEWORDS_PER_BLOCK[v][e + 1]))
      ecBlockSize == EC_CODEWORDS_PER_BLOCK[v][e + 1]
      \* dataBlocks.map((dataBlock) => this.reedSolomonEncode(dataBlock, ecBlockSize))
      ecBlocks == ArrayOf([b \in 1..Len(dataBlocks) |->
                             reedSolomonEncode(dataBlocks[b], ecBlockSize)])
  IN  interleave(dataBlocks) \o interleave(ecBlocks)

-----------------------------------------------------------------------------
(* The matrix and the function patterns                                    *)

\* A cell of the matrix is a record.  set = FALSE is the source's undefined
\* (value and isCodeword are then FALSE and mean nothing); set = TRUE is a
\* Module with the fields value and isCodeword.  writes is a history field
\* the source does not have: how many times the cell has been assigned
\* since initializeQrCode() created the matrix.
Undefined == [set |-> FALSE, value |-> FALSE, isCodeword |-> FALSE, writes |-> 0]

\* new Module(value, isCodeword) stored in a cell whose content was old.
Module(old, value, isCodeword) ==
  [set |-> TRUE, value |-> value, isCodeword |-> isCodeword, writes |-> old.writes + 1]

\* this.qrCode.length.  The matrix is a function of y in 0..N-1 whose values
\* are functions of x in 0..N-1; the constructor's [] is the empty function.
Size(qr) == Cardinality(DOMAIN qr)

\* this.qrCode[y][x] = new Module(value, isCodeword)
Assign(qr, x, y, value, isCodeword) ==
  [qr EXCEPT ![y][x] = Module(@, value, isCodeword)]

initializeQrCode(v) ==
  LET size == 21 + (v - 1) * 4
  IN  [y \in 0..(size - 1) |-> [x \in 0..(size - 1) |-> Undefined]]

\* placePattern(pattern, x, y): every cell of the pattern's rectangle is
\* assigned once, cell (x + x2, y + y2) from pattern[y2][x2].
placePattern(qr, pattern, x, y) ==
  [yy \in DOMAIN qr |->
     [xx \in DOMAIN qr[yy] |->
        IF /\ yy - y >= 0 /\ yy - y < Len(pattern)
           /\ xx - x >= 0 /\ xx - x < Len(pattern[1])
          THEN Module(qr[yy][xx], pattern[yy - y + 1][xx - x + 1] = 1, FALSE)
        ELSE qr[yy][xx]]]

placeFinderPatterns(qr) ==
  LET n == Size(qr)
      \* Top left
      q1 == placePattern(qr, FINDER_PATTERN, 0, 0)
      q2 == placePattern(q1, VERTICAL_SEPARATOR, 7, 0)
      q3 == placePattern(q2, HORIZONTAL_SEPARATOR, 0, 7)
      \* Top right
      q4 == placePattern(q3, FINDER_PATTERN, n - 7, 0)
      q5 == placePattern(q4, VERTICAL_SEPARATOR, n - 8, 0)
      q6 == placePattern(q5, HORIZONTAL_SEPARATOR, n - 8, 7)
      \* Bottom left
      q7 == placePattern(q6, FINDER_PATTERN, 0, n - 7)
      q8 == placePattern(q7, VERTICAL_SEPARATOR, 7, n - 8)
  IN  placePattern(q8, HORIZONTAL_SEPARATOR, 0, n - 8)

\* The two nested loops of placeAlignmentPatterns, for (j, y) of positions
\* and inside it for (i, x) of positions, as one loop over t = j * length + i.
RECURSIVE AlignmentLoop(_, _, _)
AlignmentLoop(st, positions, k) ==
  IF ~(st.t < Len(positions) * Len(positions)) THEN st
  ELSE IF k = 0
    THEN LET j == st.t \div Len(positions)
             i == st.t % Len(positions)
             y == positions[j + 1]
             x == positions[i + 1]
         IN  IF \/ (i = 0 /\ j = 0)
                \/ (i = 0 /\ j = Len(positions) - 1)
                \/ (i = Len(positions) - 1 /\ j = 0)
               THEN \* "Skip positions that overlap finder patterns."
                    [qr |-> st.qr, t |-> st.t + 1]
             ELSE [qr |-> placePattern(st.qr, ALIGNMENT_PATTERN, x - 2, y - 2),
                   t |-> st.t + 1]
  ELSE AlignmentLoop(AlignmentLoop(st, positions, k - 1), positions, k - 1)

placeAlignmentPatterns(qr, v) ==
  LET positions == ALIGNMENT_PATTERN_POSITIONS[v]
  IN  AlignmentLoop([qr |-> qr, t |-> 0], positions,
                    Fuel(Len(positions) * Len(positions))).qr

\* Timing patterns written without the test for undefined: all of row 6
\* and of column 6 is assigned.
placeTimingPatternsUntested(qr) ==
  [y \in DOMAIN qr |->
     [x \in DOMAIN qr[y] |->
        IF y = 6 THEN Module(qr[y][x], x % 2 = 0, FALSE)
        ELSE IF x = 6 THEN Module(qr[y][x], y % 2 = 0, FALSE)
        ELSE qr[y][x]]]

\* The first loop fills what is undefined of row 6, the second what is then
\* undefined of column 6; each loop visits every cell of its line once.
placeTimingPatterns(qr) ==
  LET q1 == [y \in DOMAIN qr |->
               [x \in DOMAIN qr[y] |->
                  IF y = 6 /\ ~qr[y][x].set
                    THEN Module(qr[y][x], x % 2 = 0, FALSE)
                  ELSE qr[y][x]]]
  IN  [y \in DOMAIN q1 |->
         [x \in DOMAIN q1[y] |->
            IF x = 6 /\ ~q1[y][x].set
              THEN Module(q1[y][x], y % 2 = 0, FALSE)
            ELSE q1[y][x]]]

\* placeVersionInformation's loop: for (let i = 0; i < 18; i++), two
\* assignments an iteration.
RECURSIVE VersionInformationLoop(_, _, _)
VersionInformationLoop(st, bits, k) ==
  IF ~(st.i < 18) THEN st
  ELSE IF k = 0
    THEN LET n == Size(st.qr)
             i == st.i
             q1 == Assign(st.qr, 5 - (i \div 3), n - 9 - (i % 3), bits[i + 1] = 1, FALSE)
         IN  [qr |-> Assign(q1, n - 9 - (i % 3), 5 - (i \div 3), bits[i + 1] = 1, FALSE),
              i |-> i + 1]
  ELSE VersionInformationLoop(VersionInformationLoop(st, bits, k - 1), bits, k - 1)

placeVersionInformation(qr, bits) ==
  VersionInformationLoop([qr |-> qr, i |-> 0], bits, Fuel(18)).qr

\* placeFormatInformation's loop: for (let i = 0; i < 8; i++), four
\* assignments an iteration, in the source's order.
RECURSIVE FormatInformationLoop(_, _, _)
FormatInformationLoop(st, bits, k) ==
  IF ~(st.i < 8) THEN st
  ELSE IF k = 0
    THEN LET n == Size(st.qr)
             i == st.i
             \* "Bits 14 to 7"
             q1 == Assign(st.qr, IF i >= 6 THEN i + 1 ELSE i, 8, bits[i + 1] = 1, FALSE)
             q2 == Assign(q1, 8, n - i - 1, bits[i + 1] = 1, FALSE)
             \* "Bits 7 to 0"
             q3 == Assign(q2, 8, IF i >= 6 THEN i + 1 ELSE i, bits[14 - i + 1] = 1, FALSE)
         IN  [qr |-> Assign(q3, n - i - 1, 8, bits[14 - i + 1] = 1, FALSE),
              i |-> i + 1]
  ELSE FormatInformationLoop(FormatInformationLoop(st, bits, k - 1), bits, k - 1)

placeFormatInformation(qr, bits) ==
  LET q == FormatInformationLoop([qr |-> qr, i |-> 0], bits, Fuel(8)).qr
  IN  \* "The dark module"
      Assign(q, 8, Size(q) - 8, TRUE, FALSE)

-----------------------------------------------------------------------------
(* Codeword placement                                                      *)

\* A placement that does not test the cell: every cell reads as undefined.
IsUndefinedUntested(qr, x, y) == TRUE

\* Whether this.qrCode[y][x] === undefined.  y stays in 0..N-1; an x outside
\* 0..N-1 names no cell of the row, which reads as undefined.
IsUndefined(qr, x, y) ==
  IF x \in DOMAIN qr[y] THEN ~qr[y][x].set ELSE TRUE

\* The loop of placeCodewords: while (i < bits.length) { ... step++ }.  st
\* holds the locals i, step, x, y, upwards and the matrix.  An assignment to
\* an x outside 0..N-1 adds a property to the row array and no cell to the
\* matrix: the bit is used up, and st.outside counts such bits.
RECURSIVE PlaceLoop(_, _, _)
PlaceLoop(st, bits, k) ==
  IF ~(st.i < Len(bits)) THEN st
  ELSE IF k = 0
    THEN LET n == Size(st.qr)
             write == IsUndefined(st.qr, st.x, st.y)
             inside == st.x \in DOMAIN st.qr[st.y]
             turn == /\ st.step % 2 = 1
                     /\ \/ (st.upwards /\ st.y = 0)
                        \/ (~st.upwards /\ st.y = n - 1)
         IN  [qr |-> IF write /\ inside
                       THEN Assign(st.qr, st.x, st.y, bits[st.i + 1] = 1, TRUE)
                     ELSE st.qr,
              i |-> IF write THEN st.i + 1 ELSE st.i,
              outside |-> IF write /\ ~inside THEN st.outside + 1 ELSE st.outside,
              x |-> IF turn THEN (IF st.x = 7 THEN st.x - 2 ELSE st.x - 1)
                    ELSE (IF st.step % 2 = 0 THEN st.x - 1 ELSE st.x + 1),
              y |-> IF turn THEN st.y
                    ELSE (IF st.step % 2 = 0 THEN st.y
                          ELSE IF st.upwards THEN st.y - 1 ELSE st.y + 1),
              upwards |-> IF turn THEN ~st.upwards ELSE st.upwards,
              step |-> st.step + 1]
  ELSE PlaceLoop(PlaceLoop(st, bits, k - 1), bits, k - 1)

\* A placement without the remainder loop: the cells stay as they are.
SetRemainderBitsOmitted(qr) == qr

\* "Set remainder bits to 0.": every cell still undefined is assigned once.
SetRemainderBits(qr) ==
  [y \in DOMAIN qr |->
     [x \in DOMAIN qr[y] |->
        IF ~qr[y][x].set THEN Module(qr[y][x], FALSE, TRUE) ELSE qr[y][x]]]

\* A walk without "Reserve format information modules.".
WalkCodewordsUnreserved(qr, codewords) ==
  PlaceLoop([qr |-> qr, i |-> 0, outside |-> 0, step |-> 0,
             x |-> Size(qr) - 1, y |-> Size(qr) - 1, upwards |-> TRUE],
            BytesToBits(codewords), Fuel(8 * Len(codewords) + Size(qr) * Size(qr) + Size(qr)))

\* The walk of placeCodewords up to the end of its while loop: the loop's
\* variables when it ends.  Every iteration but those on a set cell uses up
\* a bit, and the walk is on set cells at most N * N + N times (the cells of
\* the matrix, and column 6), which bounds the trip count.
WalkCodewords(qr, codewords) ==
  LET bits == BytesToBits(codewords)
      \* "Reserve format information modules."
      reserved == placeFormatInformation(qr, Zeros(15))
      n == Size(qr)
  IN  PlaceLoop([qr |-> reserved, i |-> 0, outside |-> 0, step |-> 0,
                 x |-> n - 1, y |-> n - 1, upwards |-> TRUE],
                bits, Fuel(Len(bits) + n * n + n))

placeCodewords(qr, codewords) ==
  SetRemainderBits(WalkCodewords(qr, codewords).qr)

-----------------------------------------------------------------------------
(* Mask selection                                                          *)

\* DATA_MASKS[i](x, y)
DATA_MASKS(i, x, y) ==
  CASE i = 0 -> (x + y) % 2 = 0
    [] i = 1 -> y % 2 = 0
    [] i = 2 -> x % 3 = 0
    [] i = 3 -> (x + y) % 3 = 0
    [] i = 4 -> ((x \div 3) + (y \div 2)) % 2 = 0
    [] i = 5 -> ((x * y) % 2) + ((x * y) % 3) = 0
    [] i = 6 -> (((x * y) % 2) + ((x * y) % 3)) % 2 = 0
    [] i = 7 -> (((x + y) % 2) + ((x * y) % 3)) % 2 = 0

\* A masking that does not test isCodeword: every cell where the mask
\* predicate holds is inverted.
MaskedCopyOfAllCells(qr, i) ==
  [y \in DOMAIN qr |->
     [x \in DOMAIN qr[y] |->
        IF DATA_MASKS(i, x, y) THEN [qr[y][x] EXCEPT !.value = ~@] ELSE qr[y][x]]]

\* The copy of the matrix with mask i applied (the body of applyDataMask's
\* loop up to the scoring): { ...module } copies the fields of every cell,
\* and value is inverted where isCodeword && DATA_MASKS[i](x, y).
MaskedCopy(qr, i) ==
  [y \in DOMAIN qr |->
     [x \in DOMAIN qr[y] |->
        IF qr[y][x].isCodeword /\ DATA_MASKS(i, x, y)
          THEN [qr[y][x] EXCEPT !.value = ~@]
        ELSE qr[y][x]]]

\* A scoreAdjacent that closes a run at a change of colour only.
scoreAdjacentAtChanges(st, qr, x, y, row) ==
  LET adjacentModule == IF row THEN qr[y][x + 1] ELSE qr[y + 1][x]
  IN  IF qr[y][x].value # adjacentModule.value
        THEN [score |-> IF st.adjacent >= 5 THEN st.score + 3 + st.adjacent - 5
                        ELSE st.score,
              adjacent |-> 1, t |-> st.t + 1]
      ELSE [score |-> st.score, adjacent |-> st.adjacent + 1, t |-> st.t + 1]

\* scoreAdjacent(x, y, row) on the closure's variables score and adjacent.
scoreAdjacent(st, qr, x, y, row) ==
  LET n == Size(qr)
      adjacentModule == IF row THEN qr[y][x + 1] ELSE qr[y + 1][x]
      isLastModule == IF row THEN x = n - 2 ELSE y = n - 2
      adjacent1 == IF qr[y][x].value = adjacentModule.value
                     THEN st.adjacent + 1 ELSE st.adjacent
  IN  IF qr[y][x].value # adjacentModule.value \/ isLastModule
        THEN [score |-> IF adjacent1 >= 5 THEN st.score + 3 + adjacent1 - 5
                        ELSE st.score,
              adjacent |-> 1, t |-> st.t + 1]
      ELSE [score |-> st.score, adjacent |-> adjacent1, t |-> st.t + 1]

\* "Adjacent modules in rows" (row = TRUE): for y in 0..N-1, for x in
\* 0..N-2, scoreAdjacent(x, y, true); "Adjacent modules in columns"
\* (row = FALSE): for x in 0..N-1, for y in 0..N-2.  The two nested loops
\* are one loop over t = outer * (N - 1) + inner.
RECURSIVE AdjacentLoop(_, _, _, _)
AdjacentLoop(st, qr, row, k) ==
  IF ~(st.t < Size(qr) * (Size(qr) - 1)) THEN st
  ELSE IF k = 0
    THEN LET outer == st.t \div (Size(qr) - 1)
             inner == st.t % (Size(qr) - 1)
         IN  IF row THEN scoreAdjacent(st, qr, inner, outer, TRUE)
             ELSE scoreAdjacent(st, qr, outer, inner, FALSE)
  ELSE AdjacentLoop(AdjacentLoop(st, qr, row, k - 1), qr, row, k - 1)

\* The score after the two adjacency scans, which share the counter adjacent.
ScoreAdjacency(qr) ==
  LET n == Size(qr)
      rows == AdjacentLoop([score |-> 0, adjacent |-> 1, t |-> 0], qr, TRUE,
                           Fuel(n * (n - 1)))
  IN  AdjacentLoop([score |-> rows.score, adjacent |-> rows.adjacent, t |-> 0],
                   qr, FALSE, Fuel(n * (n - 1))).score

\* "2x2 modules": 3 for every y, x in 0..N-2 whose block has one colour.
ScoreBlocks(qr) ==
  LET n == Size(qr)
  IN  3 * Cardinality({p \in (0..(n - 2)) \X (0..(n - 2)) :
                         LET x == p[1]
                             y == p[2]
                             value == qr[y][x].value
                         IN  /\ qr[y + 1][x].value = value
                             /\ qr[y][x + 1].value = value
                             /\ qr[y + 1][x + 1].value = value})

\* const patterns = [...]
Patterns11311 ==
  << <<FALSE, FALSE, FALSE, FALSE, TRUE, FALSE, TRUE, TRUE, TRUE, FALSE, TRUE>>,
     <<TRUE, FALSE, TRUE, TRUE, TRUE, FALSE, TRUE, FALSE, FALSE, FALSE, FALSE>> >>

\* Whether score11311(x, y, row) finds the pattern matching at (x, y).
Matches11311(qr, pattern, x, y, row) ==
  \A i \in 0..(Len(pattern) - 1) :
     (IF row THEN qr[y][x + i].value ELSE qr[y + i][x].value) = pattern[i + 1]

\* "1:1:3:1:1 pattern in rows" and "in columns": 40 for every pattern and
\* every start at which it matches.
Score11311(qr) ==
  LET n == Size(qr)
      rowHits == {h \in (1..2) \X (0..(n - 11)) \X (0..(n - 1)) :
                    Matches11311(qr, Patterns11311[h[1]], h[2], h[3], TRUE)}
      colHits == {h \in (1..2) \X (0..(n - 1)) \X (0..(n - 11)) :
                    Matches11311(qr, Patterns11311[h[1]], h[2], h[3], FALSE)}
  IN  40 * (Cardinality(rowHits) + Cardinality(colHits))

\* "Proportion of modules": 10 * Math.floor(Math.abs(count / N^2 - 0.5) / 0.05)
\* in IEEE double arithmetic.  The quotient |count / N^2 - 0.5| / 0.05 is
\* 10 * |2 * count - N^2| / N^2; away from the integers the double result
\* has the same floor, and at the integers (count / N^2 a multiple of 1/5
\* as N is odd) the double quotient lies just below the integer for the
\* proportions 1/5, 2/5 and 3/5 (1.9999999999999996 for 0.4 and 0.6,
\* 5.999999999999999 for 0.2) and is not below it for 0, 4/5 and 1.
ScoreProportion(qr) ==
  LET n == Size(qr)
      count == Cardinality({p \in (0..(n - 1)) \X (0..(n - 1)) : qr[p[2]][p[1]].value})
      d == IF 2 * count >= n * n THEN 2 * count - n * n ELSE n * n - 2 * count
      exact == (10 * d) \div (n * n)
      below == 5 * count \in {n * n, 2 * n * n, 3 * n * n}
  IN  10 * (IF below THEN exact - 1 ELSE exact)

scoreDataMask(qr) ==
  ScoreAdjacency(qr) + ScoreBlocks(qr) + Score11311(qr) + ScoreProportion(qr)

\* let minScore = Number.MAX_VALUE (about 1.8 * 10^308).  Here it is the
\* largest integer of the model's arithmetic, which like Number.MAX_VALUE is
\* above the score of every matrix up to 177 x 177.
NUMBER_MAX_VALUE == 2147483647

\* applyDataMask's loop: for (let i = 0; i < 8; i++) over minScore,
\* minIndex, minQrCode; qr is this.qrCode, which the loop only reads.
RECURSIVE DataMaskLoop(_, _, _)
DataMaskLoop(st, qr, k) ==
  IF ~(st.i < 8) THEN st
  ELSE IF k = 0
    THEN LET qrCode == MaskedCopy(qr, st.i)
             score == scoreDataMask(qrCode)
         IN  IF score < st.minScore
               THEN [minScore |-> score, minIndex |-> st.i, minQrCode |-> qrCode,
                     i |-> st.i + 1]
             ELSE [st EXCEPT !.i = @ + 1]
  ELSE DataMaskLoop(DataMaskLoop(st, qr, k - 1), qr, k - 1)

\* applyDataMask(): minQrCode is the matrix it stores in this.qrCode and
\* minIndex the index it returns.
applyDataMask(qr) ==
  DataMaskLoop([minScore |-> NUMBER_MAX_VALUE, minIndex |-> 0, minQrCode |-> <<>>, i |-> 0],
               qr, Fuel(8))

\* A format index that takes the ecLevel number itself as the two upper bits.
FormatDataBitsOfEnum(e, maskIndex) ==
  PadStart(ToBinary(e), 2) \o PadStart(ToBinary(maskIndex), 3)

\* The format string generate() looks up: ["01", "00", "11", "10"][ecLevel]
\* followed by the mask index in three binary digits, read as a number.
FormatDataBits(e, maskIndex) ==
  << <<0,1>>, <<0,0>>, <<1,1>>, <<1,0>> >>[e + 1] \o PadStart(ToBinary(maskIndex), 3)

FormatString(e, maskIndex) ==
  FORMAT_INFORMATION[ParseBinary(FormatDataBits(e, maskIndex)) + 1]

\* generate() from the codewords on, as one value (the steps below take
\* the same path one call at a time).
FinalMatrix(v, e, codewords) ==
  LET q1 == placeTimingPatterns(placeAlignmentPatterns(
              placeFinderPatterns(initializeQrCode(v)), v))
      q2 == IF v >= 7 THEN placeVersionInformation(q1, VERSION_INFORMATION[v - 7 + 1]) ELSE q1
      q3 == placeCodewords(q2, codewords)
      m == applyDataMask(q3)
  IN  [qr |-> placeFormatInformation(m.minQrCode, FormatString(e, m.minIndex)),
       mask |-> m.minIndex, score |-> m.minScore]
-----------------------------------------------------------------------------
(* The generator object and its callers                                    *)

\* A caller of the class: it constructs a generator, calls generate(), and
\* (the fields being public) may assign version, ecLevel or data between
\* calls.  A string is the sequence of its code points.
VARIABLES
  version,        \* this.version
  ecLevel,        \* this.ecLevel
  data,           \* this.data
  qrCode,         \* this.qrCode
  pc,             \* where generate() stands: the statement it runs next
  dataCodewords,  \* createCodewords' local dataCodewords
  codewords,      \* generate's local codewords
  maskIndex,      \* what applyDataMask() returned to generate()
  error,          \* the Error generate() threw, NoError if none
  pending,        \* the generate() calls the caller still makes
  requested,      \* history: the version the caller last wrote in the field
  qrBefore,       \* history: this.qrCode when the running call started
  unmasked,       \* history: this.qrCode when applyDataMask() was entered
  rsData,         \* reedSolomonEncode's argument data
  rsSize,         \* reedSolomonEncode's argument ecSize
  rsEc            \* reedSolomonEncode's result, <<>> before the call

fields == <<version, ecLevel, data, qrCode>>
locals == <<dataCodewords, codewords, maskIndex>>
rsVars == <<rsData, rsSize, rsEc>>
vars == <<version, ecLevel, data, qrCode, pc, dataCodewords, codewords, maskIndex,
          error, pending, requested, qrBefore, unmasked, rsData, rsSize, rsEc>>

NoError == [name |-> "", message |-> ""]

\* new Error("Message exceeds ..."); error.name = "QrCodeGeneratorError"
CapacityError ==
  [name |-> "QrCodeGeneratorError",
   message |-> "Message exceeds data capacity. Increase version, decrease error correction level or shorten message."]

\* generate() writes version information from this version on.
VERSION_INFORMATION_MIN == 7

\* n copies of the code point cp.
Repeat(cp, n) == [i \in 1..n |-> cp]

\* generate() is not running: the object is constructed, or a call has
\* returned or thrown.
Idle == pc \in {"constructed", "returned", "threw"}

\* constructor(version, ecLevel, data), followed by calls generate() calls.
Construct(v, e, str, calls) ==
  /\ version = v
  /\ ecLevel = e
  /\ data = str
  /\ qrCode = <<>>
  /\ pc = "constructed"
  /\ dataCodewords = <<>>
  /\ codewords = <<>>
  /\ maskIndex = 0
  /\ error = NoError
  /\ pending = calls
  /\ requested = v
  /\ qrBefore = <<>>
  /\ unmasked = <<>>
  /\ rsData = <<>>
  /\ rsSize = 0
  /\ rsEc = <<>>

\* A generate() that empties this.qrCode before it builds the codewords.
CreateDataCodewordsOnNewMatrix ==
  /\ Idle
  /\ pending > 0
  /\ LET r == createDataCodewords(version, ecLevel, data)
     IN  /\ version' = r.version
         /\ IF r.threw
              THEN /\ pc' = "threw"
                   /\ error' = CapacityError
                   /\ UNCHANGED dataCodewords
            ELSE /\ pc' = "createCodewords"
                 /\ error' = NoError
                 /\ dataCodewords' = r.codewords
  /\ pending' = pending - 1
  /\ qrBefore' = qrCode
  /\ qrCode' = <<>>
  /\ UNCHANGED <<ecLevel, data, codewords, maskIndex, requested, unmasked>>
  /\ UNCHANGED rsVars

\* generate() line 34 into createCodewords() line 48: createDataCodewords()
\* assigns this.version in its Auto loop and throws when the bits exceed the
\* capacity, which ends generate().
CreateDataCodewords ==
  /\ Idle
  /\ pending > 0
  /\ LET r == createDataCodewords(version, ecLevel, data)
     IN  /\ version' = r.version
         /\ IF r.threw
              THEN /\ pc' = "threw"
                   /\ error' = CapacityError
                   /\ UNCHANGED dataCodewords
            ELSE /\ pc' = "createCodewords"
                 /\ error' = NoError
                 /\ dataCodewords' = r.codewords
  /\ pending' = pending - 1
  /\ qrBefore' = qrCode
  /\ UNCHANGED <<ecLevel, data, qrCode, codewords, maskIndex, requested, unmasked>>
  /\ UNCHANGED rsVars

\* The rest of createCodewords(): blocks, error correction, interleaving.
CreateCodewords ==
  /\ pc = "createCodewords"
  /\ codewords' = createCodewords(version, ecLevel, dataCodewords)
  /\ pc' = "initializeQrCode"
  /\ UNCHANGED <<fields, dataCodewords, maskIndex, error, pending, requested,
                 qrBefore, unmasked, rsVars>>

\* A step of generate() that only rewrites this.qrCode.
Place(at, qr, next) ==
  /\ pc = at
  /\ qrCode' = qr
  /\ pc' = next
  /\ UNCHANGED <<version, ecLevel, data, locals, error, pending, requested,
                 qrBefore, unmasked, rsVars>>

InitializeQrCode ==
  Place("initializeQrCode", initializeQrCode(version), "placeFinderPatterns")

PlaceFinderPatterns ==
  Place("placeFinderPatterns", placeFinderPatterns(qrCode), "placeAlignmentPatterns")

PlaceAlignmentPatterns ==
  Place("placeAlignmentPatterns", placeAlignmentPatterns(qrCode, version),
        "placeTimingPatterns")

PlaceTimingPatterns ==
  Place("placeTimingPatterns", placeTimingPatterns(qrCode), "placeVersionInformation")

\* if (this.version >= 7) this.placeVersionInformation(VERSION_INFORMATION[this.version - 7])
PlaceVersionInformation ==
  Place("placeVersionInformation",
        IF version >= VERSION_INFORMATION_MIN
          THEN placeVersionInformation(qrCode,
                 VERSION_INFORMATION[version - VERSION_INFORMATION_MIN + 1])
        ELSE qrCode,
        "placeCodewords")

PlaceCodewords ==
  Place("placeCodewords", placeCodewords(qrCode, codewords), "applyDataMask")

\* this.applyDataMask() in line 43: this.qrCode = minQrCode; return minIndex
ApplyDataMask ==
  /\ pc = "applyDataMask"
  /\ LET m == applyDataMask(qrCode)
     IN  /\ qrCode' = m.minQrCode
         /\ maskIndex' = m.minIndex
  /\ unmasked' = qrCode
  /\ pc' = "placeFormatInformation"
  /\ UNCHANGED <<version, ecLevel, data, dataCodewords, codewords, error, pending,
                 requested, qrBefore, rsVars>>

\* Lines 43-44, after which generate() returns.
PlaceFormatInformation ==
  Place("placeFormatInformation",
        placeFormatInformation(qrCode, FormatString(ecLevel, maskIndex)),
        "returned")

Generate ==
  \/ CreateDataCodewords
  \/ CreateCodewords
  \/ InitializeQrCode
  \/ PlaceFinderPatterns
  \/ PlaceAlignmentPatterns
  \/ PlaceTimingPatterns
  \/ PlaceVersionInformation
  \/ PlaceCodewords
  \/ ApplyDataMask
  \/ PlaceFormatInformation

-----------------------------------------------------------------------------
(* One generate() call on a new generator                                  *)

\* The versions, besides the program's VERSION_INFORMATION_MIN, that the
\* callers ask for: 0 (Auto) and 1..MaxVersion.
MaxVersion == 2

HelloWorld == <<72, 69, 76, 76, 79, 32, 87, 79, 82, 76, 68>>

\* "Aé€😀": code points of 1, 2, 3 and 4 UTF-8 bytes.
MultiByte == <<65, 233, 8364, 128512>>

Messages == {<<>>, HelloWorld, MultiByte}

Versions == 0..MaxVersion \cup {VERSION_INFORMATION_MIN}

Init ==
  \E v \in Versions, e \in EcLevel, str \in Messages : Construct(v, e, str, 1)

Next == Generate

Spec == Init /\ [][Next]_vars

-----------------------------------------------------------------------------
(* The capacity decision, for every version                                *)

\* The bytes of message that fill version v at level e: the capacity less
\* the header, in codewords.
FillBytes(v, e) ==
  (DATA_CAPACITIES[v][e + 1] - Len(getDataHeaderBits(v, 0))) \div 8

\* Messages around the capacity of version v at level e: three bytes to
\* one byte under (room for two, one and no padding codeword), exactly full
\* and one byte over in one-byte characters, exactly full and one byte over
\* with a four-byte character at the end; and the empty message.
BoundaryMessages(v, e) ==
  {<<>>}
    \cup {Repeat(65, n) : n \in (FillBytes(v, e) - 3)..(FillBytes(v, e) + 1)}
    \cup {Repeat(65, n) \o <<128512>> : n \in (FillBytes(v, e) - 4)..(FillBytes(v, e) - 3)}

\* A generator of any version 0..40 with a message around the capacity of
\* some version w (of its own version when that is explicit); the call is
\* followed up to the capacity decision of createDataCodewords().
InitCap ==
  \E v \in 0..MAX_VERSION, w \in 1..MAX_VERSION, e \in EcLevel :
    /\ v # 0 => w = v
    /\ \E str \in BoundaryMessages(w, e) : Construct(v, e, str, 1)

NextCap == CreateDataCodewords

SpecCap == InitCap /\ [][NextCap]_vars

-----------------------------------------------------------------------------
(* Reed-Solomon encoding of chosen blocks                                  *)

\* Every EC block size of the tables.
EcSizes == {EC_CODEWORDS_PER_BLOCK[v][e + 1] : v \in 1..MAX_VERSION, e \in EcLevel}

\* The first codewords a, and the lengths k of the ramp blocks, are
\* 1..MaxLead and 1..MaxBlock.
MaxLead == 2

MaxBlock == 12

\* The blocks encoded: the all-zero block; every two-codeword block
\* <<a, b>> (for each a and EC size, some b gives an EC block that starts
\* with 0); blocks of k codewords 37, 74, ... modulo 256.
RsBlocks ==
  {Repeat(0, 3)}
    \cup {<<a, b>> : a \in 1..MaxLead, b \in 0..255}
    \cup {[i \in 1..k |-> (37 * i) % 256] : k \in 1..MaxBlock}

InitRS ==
  /\ version = 0
  /\ ecLevel = 0
  /\ data = <<>>
  /\ qrCode = <<>>
  /\ pc = "constructed"
  /\ dataCodewords = <<>>
  /\ codewords = <<>>
  /\ maskIndex = 0
  /\ error = NoError
  /\ pending = 0
  /\ requested = 0
  /\ qrBefore = <<>>
  /\ unmasked = <<>>
  /\ rsData \in RsBlocks
  /\ rsSize \in EcSizes
  /\ rsEc = <<>>

\* this.reedSolomonEncode(rsData, rsSize)
ReedSolomonEncode ==
  /\ rsEc = <<>>
  /\ rsEc' = reedSolomonEncode(rsData, rsSize)
  /\ UNCHANGED <<fields, pc, locals, error, pending, requested, qrBefore, unmasked,
                 rsData, rsSize>>

NextRS == ReedSolomonEncode

SpecRS == InitRS /\ [][NextRS]_vars

-----------------------------------------------------------------------------
(* Several generate() calls on one generator                               *)

\* The calls a caller makes on one generator.
MaxCalls == 2

\* The versions, 0..MaxCallVersion, the levels and the messages of these
\* callers.
MaxCallVersion == 1

\* A message of more bytes than the largest capacity has bits.
TooLong == Repeat(65, DATA_CAPACITIES[MAX_VERSION][1] \div 8)

CallMessages == {<<>>, HelloWorld, TooLong}

InitCalls ==
  \E v \in 0..MaxCallVersion, e \in EcLevel, str \in CallMessages :
    Construct(v, e, str, MaxCalls)

\* The generator has been used and the caller calls again.
BetweenCalls == pc \in {"returned", "threw"} /\ pending > 0

\* generator.version = v
SetVersion ==
  /\ BetweenCalls
  /\ \E v \in 0..MaxCallVersion :
       /\ version' = v
       /\ requested' = v
  /\ UNCHANGED <<ecLevel, data, qrCode, pc, locals, error, pending, qrBefore,
                 unmasked, rsVars>>

\* generator.ecLevel = e
SetEcLevel ==
  /\ BetweenCalls
  /\ \E e \in EcLevel : ecLevel' = e
  /\ UNCHANGED <<version, data, qrCode, pc, locals, error, pending, requested,
                 qrBefore, unmasked, rsVars>>

\* generator.data = str
SetData ==
  /\ BetweenCalls
  /\ \E str \in CallMessages : data' = str
  /\ UNCHANGED <<version, ecLevel, qrCode, pc, locals, error, pending, requested,
                 qrBefore, unmasked, rsVars>>

NextCalls == Generate \/ SetVersion \/ SetEcLevel \/ SetData

SpecCalls == InitCalls /\ [][NextCalls]_vars

-----------------------------------------------------------------------------
(* Layout and codeword placement, for every version                        *)

\* The codewords createCodewords() returns for version v at level e: the
\* data codewords and the EC codewords of every block.
TotalCodewords(v, e) ==
  DATA_CAPACITIES[v][e + 1] \div 8
    + EC_CODEWORDS_PER_BLOCK[v][e + 1]
        * (DATA_CODEWORDS_PER_BLOCK[v][e + 1][2] + DATA_CODEWORDS_PER_BLOCK[v][e + 1][4])

\* generate() of a generator of version v at level e, after createCodewords()
\* has returned: a stream of the length of that version and level (the
\* codewords 37, 74, ... modulo 256; the walk does not read their values to
\* decide where it goes).
InitWalk ==
  \E v \in 1..MAX_VERSION, e \in EcLevel :
    /\ version = v
    /\ ecLevel = e
    /\ data = <<>>
    /\ qrCode = <<>>
    /\ pc = "initializeQrCode"
    /\ dataCodewords = <<>>
    /\ codewords = [i \in 1..TotalCodewords(v, e) |-> (37 * i) % 256]
    /\ maskIndex = 0
    /\ error = NoError
    /\ pending = 0
    /\ requested = v
    /\ qrBefore = <<>>
    /\ unmasked = <<>>
    /\ rsData = <<>>
    /\ rsSize = 0
    /\ rsEc = <<>>

\* generate() from initializeQrCode() to placeCodewords().
NextWalk ==
  \/ InitializeQrCode
  \/ PlaceFinderPatterns
  \/ PlaceAlignmentPatterns
  \/ PlaceTimingPatterns
  \/ PlaceVersionInformation
  \/ PlaceCodewords

SpecWalk == InitWalk /\ [][NextWalk]_vars

-----------------------------------------------------------------------------
(* Properties of one generate() call (specification Spec)                  *)

\* The positions of generate(), in the order a call passes them.
PcOrder ==
  <<"createCodewords", "initializeQrCode", "placeFinderPatterns",
    "placeAlignmentPatterns", "placeTimingPatterns", "placeVersionInformation",
    "placeCodewords", "applyDataMask", "placeFormatInformation", "returned">>

\* The running or returned call has passed position at (the step that
\* starts at that position has been taken).
Past(at) ==
  \E i, j \in 1..Len(PcOrder) : PcOrder[i] = at /\ PcOrder[j] = pc /\ i < j

\* The side of the matrix of a version.
SideOf(v) == 21 + 4 * (v - 1)

\* The module at column x, row y holds colour dark and is no codeword module.
Fixed(x, y, dark) ==
  /\ qrCode[y][x].set
  /\ qrCode[y][x].value = dark
  /\ ~qrCode[y][x].isCodeword

Abs(a) == IF a < 0 THEN -a ELSE a

Max(a, b) == IF a < b THEN b ELSE a

\* C3: after a successful generate() the matrix is square with side
\* 21 + 4 * (version - 1) for the resolved version, the version is in 1..40
\* and every cell holds a Module.
C3_SquareAndFull ==
  pc = "returned" =>
    /\ version \in 1..MAX_VERSION
    /\ DOMAIN qrCode = 0..(SideOf(version) - 1)
    /\ \A y \in DOMAIN qrCode :
         /\ DOMAIN qrCode[y] = 0..(SideOf(version) - 1)
         /\ \A x \in DOMAIN qrCode[y] : qrCode[y][x].set

\* A call in Auto mode that resolved version 2, whose matrix has cells
\* that only the remainder bits fill.
C3_Witness ==
  /\ pc = "returned"
  /\ requested = 0
  /\ version = 2
  /\ Size(qrCode) = 25

\* The finder whose top-left corner is (ox, oy): dark ring, light ring,
\* dark 3x3 centre.
FinderAt(ox, oy) ==
  \A dx, dy \in 0..6 :
    Fixed(ox + dx, oy + dy, Max(Abs(dx - 3), Abs(dy - 3)) # 2)

\* The light separators on the inner sides of the three finders.
SeparatorsLight ==
  LET n == Size(qrCode)
  IN  \A k \in 0..7 :
        /\ Fixed(7, k, FALSE) /\ Fixed(k, 7, FALSE)
        /\ Fixed(n - 8, k, FALSE) /\ Fixed(n - 1 - k, 7, FALSE)
        /\ Fixed(7, n - 1 - k, FALSE) /\ Fixed(k, n - 8, FALSE)

\* The alignment pattern centred at (cx, cy): dark ring, light ring, dark
\* centre.
AlignmentAt(cx, cy) ==
  \A dx, dy \in -2..2 : Fixed(cx + dx, cy + dy, Max(Abs(dx), Abs(dy)) # 1)

AlignmentsPlaced ==
  LET positions == ALIGNMENT_PATTERN_POSITIONS[version]
      last == Len(positions)
  IN  \A i, j \in 1..last :
        (<<i, j>> \notin {<<1, 1>>, <<1, last>>, <<last, 1>>})
          => AlignmentAt(positions[i], positions[j])

\* Row 6 and column 6 between the finders: dark where the index is even.
TimingPlaced ==
  \A k \in 8..(Size(qrCode) - 9) :
    Fixed(k, 6, k % 2 = 0) /\ Fixed(6, k, k % 2 = 0)

\* Version >= 7: string bit i of VERSION_INFORMATION[version - 7] in both
\* 3x6 regions.  Below 7 the regions hold no function module.
VersionInformationPlaced ==
  LET n == Size(qrCode)
  IN  IF version >= 7
        THEN \A i \in 0..17 :
               LET dark == VERSION_INFORMATION[version - 7 + 1][i + 1] = 1
               IN  /\ Fixed(n - 9 - (i % 3), 5 - (i \div 3), dark)
                   /\ Fixed(5 - (i \div 3), n - 9 - (i % 3), dark)
      ELSE \A i \in 0..17 :
             /\ qrCode[5 - (i \div 3)][n - 9 - (i % 3)].set
                  => qrCode[5 - (i \div 3)][n - 9 - (i % 3)].isCodeword
             /\ qrCode[n - 9 - (i % 3)][5 - (i \div 3)].set
                  => qrCode[n - 9 - (i % 3)][5 - (i \div 3)].isCodeword

\* C7: from the step that places it up to the final matrix, every fixed
\* function pattern holds its canonical modules with isCodeword = false:
\* the three finders, their separators, the alignment patterns at every
\* pair of the position list but the three finder pairs, the timing row
\* and column, and for version >= 7 only the version information; no
\* later placement step and no mask changes these cells.
C7_FunctionPatterns ==
  /\ Past("placeFinderPatterns") =>
       /\ FinderAt(0, 0)
       /\ FinderAt(Size(qrCode) - 7, 0)
       /\ FinderAt(0, Size(qrCode) - 7)
       /\ SeparatorsLight
  /\ Past("placeAlignmentPatterns") => AlignmentsPlaced
  /\ Past("placeTimingPatterns") => TimingPlaced
  /\ Past("placeVersionInformation") => VersionInformationPlaced

\* A version 7 matrix (six alignment patterns, version information) after
\* masking and stamping.
C7_Witness ==
  /\ pc = "returned"
  /\ version = 7
  /\ AlignmentAt(22, 22)
  /\ Fixed(Size(qrCode) - 9, 5, VERSION_INFORMATION[1][1] = 1)

\* The 15-bit string generate() stamps: FORMAT_INFORMATION at the index
\* whose upper two bits are 01/00/11/10 for L/M/Q/H and whose lower three
\* bits are the mask index.
FormatBits ==
  FORMAT_INFORMATION[8 * <<1, 0, 3, 2>>[ecLevel + 1] + maskIndex + 1]

\* The column or row of format bit i next to the top-left finder.
Skip6(i) == IF i < 6 THEN i ELSE i + 1

\* The eight mask predicates m_i(x, y).
MaskPredicate(i, x, y) ==
  CASE i = 0 -> (x + y) % 2 = 0
    [] i = 1 -> y % 2 = 0
    [] i = 2 -> x % 3 = 0
    [] i = 3 -> (x + y) % 3 = 0
    [] i = 4 -> ((x \div 3) + (y \div 2)) % 2 = 0
    [] i = 5 -> ((x * y) % 2) + ((x * y) % 3) = 0
    [] i = 6 -> (((x * y) % 2) + ((x * y) % 3)) % 2 = 0
    [] i = 7 -> (((x + y) % 2) + ((x * y) % 3)) % 2 = 0

\* The matrix qr with mask i XORed into exactly its codeword cells where
\* m_i holds.
Masked(qr, i) ==
  [y \in DOMAIN qr |->
     [x \in DOMAIN qr[y] |->
        [qr[y][x] EXCEPT !.value = (@ # (qr[y][x].isCodeword /\ MaskPredicate(i, x, y)))]]]

\* The codeword modules of the matrix are those of the unmasked matrix with
\* mask maskIndex applied.
MaskIndexApplied ==
  \A y \in DOMAIN qrCode : \A x \in DOMAIN qrCode :
    unmasked[y][x].isCodeword =>
      qrCode[y][x] = [unmasked[y][x] EXCEPT !.value = (@ # MaskPredicate(maskIndex, x, y))]

\* C4 as stated: both copies hold FormatBits, string bit i (i in 0..7) at
\* (Skip6(i), 8) and (8, N-1-i), string bit 14-i at (8, Skip6(i)) and
\* (N-1-i, 8); (8, N-8) is dark; maskIndex is the mask applied.
C4_AsStated ==
  pc = "returned" =>
    LET n == Size(qrCode)
    IN  /\ MaskIndexApplied
        /\ \A i \in 0..7 :
             /\ Fixed(Skip6(i), 8, FormatBits[i + 1] = 1)
             /\ Fixed(8, n - 1 - i, FormatBits[i + 1] = 1)
             /\ Fixed(8, Skip6(i), FormatBits[14 - i + 1] = 1)
             /\ Fixed(n - 1 - i, 8, FormatBits[14 - i + 1] = 1)
        /\ Fixed(8, n - 8, TRUE)

\* C4, amended: in the final matrix string bit i lies at (Skip6(i), 8) for
\* i in 0..7 and at (8, N-1-i) for i in 0..6 only, string bit 14-i at
\* (8, Skip6(i)) and (N-1-i, 8) for i in 0..7; (8, N-8), where the loop
\* wrote string bit 7, holds the dark module whatever that bit is; the
\* string is FORMAT_INFORMATION[ecBits || maskIndex] with maskIndex the mask
\* applied to the codeword modules, and no format cell is a codeword module.
C4_FormatInformation ==
  pc = "returned" =>
    LET n == Size(qrCode)
    IN  /\ MaskIndexApplied
        /\ \A i \in 0..7 :
             /\ Fixed(Skip6(i), 8, FormatBits[i + 1] = 1)
             /\ i <= 6 => Fixed(8, n - 1 - i, FormatBits[i + 1] = 1)
             /\ Fixed(8, Skip6(i), FormatBits[14 - i + 1] = 1)
             /\ Fixed(n - 1 - i, 8, FormatBits[14 - i + 1] = 1)
        /\ Fixed(8, n - 8, TRUE)

\* A final matrix whose format string has bit 7 = 0, under the dark module.
C4_Witness ==
  /\ pc = "returned"
  /\ FormatBits[7 + 1] = 0
  /\ qrCode[Size(qrCode) - 8][8].value
  /\ ~qrCode[8][8].value

\* C5: the index applyDataMask() returns is in 0..7; the matrix it keeps is
\* the matrix it was given with that mask XORed into exactly the codeword
\* cells where m_i holds; its penalty is at most that of each of the eight
\* masked copies and smaller than that of every copy of a lower index.
C5_MinimalMask ==
  pc = "placeFormatInformation" =>
    /\ maskIndex \in 0..7
    /\ qrCode = Masked(unmasked, maskIndex)
    /\ \A j \in 0..7 :
         LET sj == scoreDataMask(Masked(unmasked, j))
             sm == scoreDataMask(qrCode)
         IN  sm <= sj /\ (j < maskIndex => sm < sj)

\* applyDataMask() has chosen a mask that is neither the first nor the last
\* and changed codeword modules with it.
C5_Witness ==
  /\ pc = "placeFormatInformation"
  /\ maskIndex \in 1..6
  /\ qrCode # unmasked
  /\ \E j \in 0..7 : scoreDataMask(Masked(unmasked, j)) > scoreDataMask(qrCode)

\* The number of assignments generate() makes to cell (x, y) of a matrix
\* of side n.
Writes(x, y, n) ==
  IF <<x, y>> \in {<<8, 8>>, <<8, n - 8>>} THEN 4
  ELSE IF \/ (y = 8 /\ (x <= 8 \/ x >= n - 8) /\ x # 6)
          \/ (x = 8 /\ (y <= 8 \/ y >= n - 8) /\ y # 6)
         THEN 2
  ELSE IF <<x, y>> \in {<<7, 7>>, <<n - 8, 7>>, <<7, n - 8>>} THEN 2
  ELSE 1

\* C10 as stated: after encoding every cell has been assigned exactly once.
C10_AsStated ==
  pc = "returned" =>
    \A y \in DOMAIN qrCode : \A x \in DOMAIN qrCode : qrCode[y][x].writes = 1

\* C10, amended: after encoding every cell has been assigned at least
\* once, and exactly once but for these cells: the separator corners
\* (7,7), (N-8,7), (7,N-8), assigned by the vertical and by the horizontal
\* separator; the format cells, assigned by the reservation and by the
\* stamping; (8,8) and (8,N-8), assigned twice by each of the two.  The
\* timing patterns, the alignment patterns, the version information and
\* the codeword placement assign no cell that holds a Module, and the mask
\* changes the value of codeword cells only.
C10_AssignmentCounts ==
  /\ pc = "returned" =>
       \A y \in DOMAIN qrCode : \A x \in DOMAIN qrCode :
         qrCode[y][x].writes = Writes(x, y, Size(qrCode))
  /\ (Past("placeFinderPatterns") /\ ~Past("placeCodewords")) =>
       \A y \in DOMAIN qrCode : \A x \in DOMAIN qrCode :
         /\ qrCode[y][x].writes <= 2
         /\ qrCode[y][x].writes = 2 =>
              <<x, y>> \in {<<7, 7>>, <<Size(qrCode) - 8, 7>>, <<7, Size(qrCode) - 8>>}
  /\ Past("placeCodewords") =>
       \A y \in DOMAIN qrCode : \A x \in DOMAIN qrCode :
         qrCode[y][x].isCodeword => qrCode[y][x].writes = 1
  /\ pc = "placeFormatInformation" =>
       \A y \in DOMAIN qrCode : \A x \in DOMAIN qrCode :
         /\ qrCode[y][x].writes = unmasked[y][x].writes
         /\ qrCode[y][x].isCodeword = unmasked[y][x].isCodeword
         /\ ~qrCode[y][x].isCodeword => qrCode[y][x].value = unmasked[y][x].value

\* A final matrix with version information and alignment patterns whose
\* format cells and separator corners have been assigned more than once.
C10_Witness ==
  /\ pc = "returned"
  /\ version = 7
  /\ qrCode[8][8].writes = 4
  /\ qrCode[7][7].writes = 2
  /\ qrCode[8][0].writes = 2
  /\ qrCode[0][0].writes = 1

-----------------------------------------------------------------------------
(* Properties of the capacity decision (specification SpecCap)             *)

\* The number of UTF-8 bytes of the code points str[lo..hi].
RECURSIVE Utf8Length(_, _, _)
Utf8Length(str, lo, hi) ==
  IF lo > hi THEN 0
  ELSE IF lo = hi
    THEN (IF str[lo] < 128 THEN 1 ELSE IF str[lo] < 2048 THEN 2
          ELSE IF str[lo] < 65536 THEN 3 ELSE 4)
  ELSE Utf8Length(str, lo, (lo + hi) \div 2) + Utf8Length(str, (lo + hi) \div 2 + 1, hi)

\* Header and payload bits of the message in the field, for version v: 24
\* header bits up to version 9 and 32 above.
NeededBits(v) ==
  (IF v <= 9 THEN 24 ELSE 32) + 8 * Utf8Length(data, 1, Len(data))

\* createDataCodewords() has decided: the call threw or went on.
Decided == pc \in {"threw", "createCodewords"}

\* C1: with an explicit version v in 1..40, generate() fails with the
\* capacity error exactly when header bits + 8n exceed
\* DATA_CAPACITIES[v][ecLevel] (24 header bits for v <= 9, else 32), so a
\* message that fills the capacity succeeds and one a byte longer fails.
C1_ExplicitCapacity ==
  (Decided /\ requested \in 1..MAX_VERSION) =>
    /\ version = requested
    /\ (pc = "threw") = (NeededBits(requested) > DATA_CAPACITIES[requested][ecLevel + 1])
    /\ pc = "threw" => error = CapacityError
    /\ pc # "threw" => error = NoError

\* A message with a four-byte character that fills version 10 to the bit
\* has been accepted.
C1_Witness ==
  /\ pc = "createCodewords"
  /\ requested = 10
  /\ NeededBits(10) = DATA_CAPACITIES[10][ecLevel + 1]
  /\ data[Len(data)] = 128512

\* Version w holds the message at the level in the field.
Fits(w) == NeededBits(w) <= DATA_CAPACITIES[w][ecLevel + 1]

\* C2: in Auto mode generate() resolves this.version to the smallest
\* version in 1..40 that holds header + payload at the ecLevel, the header
\* being that of the candidate version; if none does it fails with the
\* capacity error; after success the version is in 1..40.
C2_AutoVersion ==
  (Decided /\ requested = 0) =>
    IF \E w \in 1..MAX_VERSION : Fits(w)
      THEN /\ pc = "createCodewords"
           /\ version \in 1..MAX_VERSION
           /\ Fits(version)
           /\ \A w \in 1..(version - 1) : ~Fits(w)
    ELSE pc = "threw" /\ error = CapacityError

\* Auto mode has resolved version 10, the first with a 16-bit count, for a
\* message that fills it.
C2_Witness ==
  /\ pc = "createCodewords"
  /\ requested = 0
  /\ version = 10
  /\ NeededBits(10) = DATA_CAPACITIES[10][ecLevel + 1]

-----------------------------------------------------------------------------
(* Properties of reedSolomonEncode (specification SpecRS)                  *)

\* x to the power n in GF(256).
GfPow(x, n) ==
  IF n = 0 THEN 1 ELSE IF x = 0 THEN 0 ELSE EXP_TABLE[(LOG_TABLE[x] * n) % 255]

\* The value at x of the polynomial with the coefficients p[lo..hi],
\* highest degree first.
RECURSIVE PolyEval(_, _, _, _)
PolyEval(p, lo, hi, x) ==
  IF lo = hi THEN p[lo]
  ELSE LET mid == (lo + hi) \div 2
       IN  Xor(gfMul(PolyEval(p, lo, mid, x), GfPow(x, hi - mid)),
               PolyEval(p, mid + 1, hi, x))

\* C6: reedSolomonEncode returns exactly ecSize codewords, and data || ec
\* is divisible by G_e = prod_{i < e} (x + alpha^i): it vanishes at alpha^i
\* for every i < e, and polyMod by GENERATOR_POLYNOMIALS[e] leaves the zero
\* polynomial.
C6_ReedSolomon ==
  rsEc # <<>> =>
    /\ Len(rsEc) = rsSize
    /\ \A i \in 0..(rsSize - 1) :
         PolyEval(rsData \o rsEc, 1, Len(rsData) + rsSize, EXP_TABLE[i]) = 0
    /\ polyMod(rsData \o rsEc, GENERATOR_POLYNOMIALS[rsSize]) = <<>>

\* An EC block that has been left-padded: the block is not zero and the
\* remainder starts with a zero codeword.
C6_Witness ==
  /\ rsEc # <<>>
  /\ rsData[1] # 0
  /\ rsEc[1] = 0
  /\ \E i \in 2..Len(rsEc) : rsEc[i] # 0

-----------------------------------------------------------------------------
(* Properties of repeated calls (specification SpecCalls)                  *)

\* Every cell of the matrix holds a Module.
Full(qr) == \A y \in DOMAIN qr : \A x \in DOMAIN qr[y] : qr[y][x].set

\* C8: when generate() fails with the capacity error, this.qrCode is what
\* it was before the call; the error is raised before a matrix is created
\* or a cell written, so between calls the matrix is the empty one or a
\* full one, never a partly populated one.
C8_NoPartialSuccess ==
  /\ pc = "threw" => (qrCode = qrBefore /\ error = CapacityError)
  /\ Idle => (qrCode = <<>> \/ (qrCode # <<>> /\ Full(qrCode)))
  /\ (pc = "constructed" \/ (pc = "threw" /\ pending = MaxCalls - 1)) => qrCode = <<>>

\* A call in Auto mode fails, no version holding the message, on a
\* generator that holds the matrix of an earlier call.
C8_Witness ==
  /\ pc = "threw"
  /\ requested = 0
  /\ version = MAX_VERSION + 1
  /\ qrBefore # <<>>
  /\ Full(qrBefore)
  /\ qrCode = qrBefore

\* What generate() leaves on a new generator constructed with (v, e, str).
FreshOutcome(v, e, str) ==
  LET r == createDataCodewords(v, e, str)
  IN  IF r.threw THEN [threw |-> TRUE, version |-> r.version, qrCode |-> <<>>]
      ELSE [threw |-> FALSE, version |-> r.version,
            qrCode |-> FinalMatrix(r.version, e,
                                   createCodewords(r.version, e, r.codewords)).qr]

\* A step that ends a generate() call: createDataCodewords() throws, or
\* the last statement of generate() is done.
CallEnds ==
  \/ pending' = pending - 1 /\ pc' = "threw"
  \/ pc = "placeFormatInformation" /\ pc' = "returned"

\* C9 as stated: every call ends as the call of a new generator given the
\* requested version, the ecLevel and the data ends: with the capacity
\* error, or with the same resolved version and the same matrix.
C9_AsStated ==
  [][CallEnds =>
       LET fresh == FreshOutcome(requested', ecLevel', data')
       IN  /\ (pc' = "threw") = fresh.threw
           /\ pc' = "returned" => (version' = fresh.version /\ qrCode' = fresh.qrCode)]_vars

-----------------------------------------------------------------------------
(* Properties of the codeword placement (specification SpecWalk)           *)

\* The cells of the matrix qr that satisfy Test.
CellsWhere(qr, Test(_)) ==
  {c \in (DOMAIN qr) \X (DOMAIN qr) : Test(qr[c[2]][c[1]])}

IsCodewordCell(cell) == cell.set /\ cell.isCodeword

IsUnsetCell(cell) == ~cell.set

\* C11: for every version and ecLevel the walk of placeCodewords places all
\* 8 * (total codewords) bits and no bit at a position outside the matrix;
\* it writes only into cells that are unset at that moment, so every cell
\* set before it (and every reserved format cell) keeps its content and no
\* cell of column 6 becomes a codeword cell; fewer than 8 cells are unset
\* when the stream is consumed, and those become value = false,
\* isCodeword = true; the stream length is the same at every ecLevel.
C11_WalkStaysInside ==
  /\ pc = "placeCodewords" =>
       LET w == WalkCodewords(qrCode, codewords)
           final == SetRemainderBits(w.qr)
           unset == CellsWhere(w.qr, IsUnsetCell)
       IN  /\ Len(codewords) = TotalCodewords(version, ecLevel)
           /\ \A e \in EcLevel : TotalCodewords(version, e) = Len(codewords)
           /\ w.i = 8 * Len(codewords)
           /\ w.outside = 0
           /\ Cardinality(CellsWhere(w.qr, IsCodewordCell)) = 8 * Len(codewords)
           /\ Cardinality(unset) < 8
           /\ \A c \in unset :
                /\ final[c[2]][c[1]].set
                /\ ~final[c[2]][c[1]].value
                /\ final[c[2]][c[1]].isCodeword
           /\ \A y \in DOMAIN qrCode : \A x \in DOMAIN qrCode :
                /\ qrCode[y][x].set =>
                     /\ w.qr[y][x].value = qrCode[y][x].value
                     /\ ~w.qr[y][x].isCodeword
                /\ IsCodewordCell(w.qr[y][x]) => (w.qr[y][x].writes = 1 /\ x # 6)
                /\ Writes(x, y, Size(qrCode)) > 1 => ~w.qr[y][x].isCodeword
  /\ pc = "applyDataMask" =>
       /\ Full(qrCode)
       /\ Cardinality(CellsWhere(qrCode, IsCodewordCell)) - 8 * Len(codewords) \in 0..7
       /\ \A y \in DOMAIN qrCode : \A x \in DOMAIN qrCode :
            qrCode[y][x].isCodeword => (qrCode[y][x].writes = 1 /\ x # 6)

\* The placement is done on the largest matrix, whose codeword cells the
\* stream fills exactly.
C11_Witness ==
  /\ pc = "applyDataMask"
  /\ version = MAX_VERSION
  /\ Size(qrCode) = 177
  /\ Cardinality(CellsWhere(qrCode, IsCodewordCell)) = 8 * Len(codewords)

-----------------------------------------------------------------------------
(* Properties of createCodewords (specification Spec)                      *)

\* C12: createCodewords splits the data codewords in order into g1Count
\* blocks of g1Size followed by g2Count blocks of g2Size and returns the
\* interleaved data blocks followed by the interleaved EC blocks: codeword i
\* of block b stands after the codewords i of the blocks before b and all
\* codewords below i of every block that has them; every codeword of every
\* block appears once, and the stream has
\* DATA_CAPACITIES / 8 + EC_CODEWORDS_PER_BLOCK * (g1Count + g2Count)
\* codewords.
C12_BlocksInterleaved ==
  pc = "initializeQrCode" =>
    LET g == DATA_CODEWORDS_PER_BLOCK[version][ecLevel + 1]
        g1Size == g[1]
        g1Count == g[2]
        g2Size == g[3]
        g2Count == g[4]
        n == g1Count + g2Count
        ecSize == EC_CODEWORDS_PER_BLOCK[version][ecLevel + 1]
        d == DATA_CAPACITIES[version][ecLevel + 1] \div 8
        BlockSize(b) == IF b <= g1Count THEN g1Size ELSE g2Size
        Start(b) == IF b <= g1Count THEN (b - 1) * g1Size
                    ELSE g1Count * g1Size + (b - g1Count - 1) * g2Size
        DataPos(b, i) == IF i < g1Size THEN i * n + b ELSE g1Size * n + (b - g1Count)
        ecBlocks == ArrayOf([b \in 1..n |->
                      reedSolomonEncode(
                        SubSeq(dataCodewords, Start(b) + 1, Start(b) + BlockSize(b)),
                        ecSize)])
    IN  /\ Len(dataCodewords) = d
        /\ Len(codewords) = d + ecSize * n
        /\ \A b \in 1..n :
             /\ \A i \in 0..(BlockSize(b) - 1) :
                  /\ DataPos(b, i) \in 1..d
                  /\ codewords[DataPos(b, i)] = dataCodewords[Start(b) + i + 1]
             /\ \A i \in 0..(ecSize - 1) :
                  codewords[d + i * n + b] = ecBlocks[b][i + 1]
        /\ Cardinality({DataPos(b, i) : b \in 1..n, i \in 0..(g1Size - 1)}
                         \cup {DataPos(b, g1Size) : b \in (g1Count + 1)..n}) = d

\* createCodewords has returned the stream of a version 7 symbol at level
\* H: four blocks of 13 and one block of 14 data codewords, 26 EC codewords
\* a block.
C12_Witness ==
  /\ pc = "initializeQrCode"
  /\ version = 7
  /\ ecLevel = 3
  /\ DATA_CODEWORDS_PER_BLOCK[version][ecLevel + 1] = <<13, 4, 14, 1>>
  /\ Len(codewords) = 196
  /\ codewords[66] = dataCodewords[66]
  /\ codewords[4] = dataCodewords[40]

-----------------------------------------------------------------------------
(* Properties of the padding of createDataCodewords (specification SpecCap) *)

\* Bit k (1 is the first) of the codeword stream cw, each codeword read most
\* significant bit first.
StreamBit(cw, k) ==
  (cw[(k - 1) \div 8 + 1] \div (2 ^ (7 - ((k - 1) % 8)))) % 2

\* C13: when the message fits, createDataCodewords returns exactly C / 8
\* codewords, C the data capacity of the resolved version and level, each
\* in 0..255; read most significant bit first they are the header and the
\* payload, then the terminator (four zeros if at least four bits are left,
\* else as many zeros as are left), then zeros up to a multiple of 8, then
\* the codewords 0xEC and 0x11 in turn, 0xEC first, up to C bits.
C13_PaddedToCapacity ==
  pc = "createCodewords" =>
    LET c == DATA_CAPACITIES[version][ecLevel + 1]
        dataBytes == TextEncode(data)
        bits == ArrayOf(getDataHeaderBits(version, Len(dataBytes)) \o BytesToBits(dataBytes))
        len == Len(bits)
        terminator == IF c - len >= 4 THEN 4 ELSE c - len
        padded == 8 * ((len + terminator + 7) \div 8)
    IN  /\ c % 8 = 0
        /\ Len(dataCodewords) = c \div 8
        /\ \A j \in 1..Len(dataCodewords) : dataCodewords[j] \in 0..255
        /\ len <= c
        /\ \A k \in 1..len : StreamBit(dataCodewords, k) = bits[k]
        /\ padded <= c
        /\ \A k \in (len + 1)..padded : StreamBit(dataCodewords, k) = 0
        /\ \A j \in (padded \div 8 + 1)..(c \div 8) :
             dataCodewords[j] = IF (j - padded \div 8) % 2 = 1 THEN 236 ELSE 17

\* A message that leaves three codewords of a version above 9 free has been
\* padded: one codeword holds the terminator, then come 0xEC and 0x11.
C13_Witness ==
  /\ pc = "createCodewords"
  /\ version > 9
  /\ data # <<>>
  /\ 32 + 8 * Len(data) + 24 = DATA_CAPACITIES[version][ecLevel + 1]
  /\ SubSeq(dataCodewords, Len(dataCodewords) - 2, Len(dataCodewords)) = <<0, 236, 17>>

\* C14: whenever encoding succeeds the header has 24 bits when the resolved
\* version is at most 9 and 32 bits otherwise: mode bits 0111 0 0011010 0100
\* and the UTF-8 byte length of the message in 8 or 16 bits, most
\* significant first, with the payload right behind.  No message that fits a
\* version up to 9 has 256 bytes or more and none that fits any version has
\* 65536 or more, in the tables as in the calls.
C14_CountIndicator ==
  /\ \A v \in 1..MAX_VERSION, e \in EcLevel :
       /\ v <= 9 => (DATA_CAPACITIES[v][e + 1] - 24) \div 8 < 256
       /\ (DATA_CAPACITIES[v][e + 1] - 32) \div 8 < 65536
  /\ pc = "createCodewords" =>
       LET n == Utf8Length(data, 1, Len(data))
           header == getDataHeaderBits(version, n)
           count == IF version <= 9 THEN 8 ELSE 16
       IN  /\ Len(header) = 16 + count
           /\ SubSeq(header, 1, 12) = <<0,1,1,1, 0, 0,0,1,1,0,1,0>>
           /\ SubSeq(header, 13, 16) = <<0,1,0,0>>
           /\ n < 2 ^ count
           /\ \A i \in 0..(count - 1) : header[16 + count - i] = (n \div (2 ^ i)) % 2
           /\ \A k \in 1..(16 + count) : StreamBit(dataCodewords, k) = header[k]
           /\ SubSeq(dataCodewords, 1, 2) = <<113, 164>>
           /\ version <= 9 => dataCodewords[3] = n
           /\ version > 9 => /\ dataCodewords[3] = n \div 256
                             /\ dataCodewords[4] = n % 256
           /\ n > 0 => dataCodewords[(16 + count) \div 8 + 1] = TextEncode(data)[1]

\* Automatic selection has resolved version 10 for a message of 267 bytes:
\* the count 267 stands in the third and fourth codeword as 1 and 11.
C14_Witness ==
  /\ pc = "createCodewords"
  /\ requested = 0
  /\ version = 10
  /\ Len(data) = 267
  /\ SubSeq(dataCodewords, 3, 5) = <<1, 11, 65>>

\* C15: for every version and level the capacity is a multiple of 8, the
\* block table adds up to it (g1Size * g1Count + g2Size * g2Count =
\* DATA_CAPACITIES / 8), and group 2 is absent (size 0, count 0) or has
\* blocks one codeword longer than group 1; so the blocks createCodewords
\* cuts from the data codewords have their table sizes, use up every
\* codeword, and the last block is never shorter than another.
C15_BlockTable ==
  /\ \A v \in 1..MAX_VERSION, e \in EcLevel :
       LET g == DATA_CODEWORDS_PER_BLOCK[v][e + 1]
       IN  /\ DATA_CAPACITIES[v][e + 1] % 8 = 0
           /\ g[1] * g[2] + g[3] * g[4] = DATA_CAPACITIES[v][e + 1] \div 8
           /\ g[1] >= 1 /\ g[2] >= 1
           /\ \/ g[3] = 0 /\ g[4] = 0
              \/ g[3] = g[1] + 1 /\ g[4] >= 1
  /\ pc = "createCodewords" =>
       LET g == DATA_CODEWORDS_PER_BLOCK[version][ecLevel + 1]
           blocks == ArrayOf(SplitBlocks(dataCodewords, g))
           n == Len(blocks)
       IN  /\ n = g[2] + g[4]
           /\ \A b \in 1..n : /\ Len(blocks[b]) = IF b <= g[2] THEN g[1] ELSE g[3]
                              /\ Len(blocks[b]) <= Len(blocks[n])
                              /\ Len(blocks[b]) >= 1
           /\ Join(blocks, 1, n) = dataCodewords

\* The data codewords of a version 40 symbol at level H are ready to be cut
\* into 20 blocks of 15 and 61 blocks of 16.
C15_Witness ==
  /\ pc = "createCodewords"
  /\ version = MAX_VERSION
  /\ ecLevel = 3
  /\ DATA_CODEWORDS_PER_BLOCK[version][ecLevel + 1] = <<15, 20, 16, 61>>
  /\ Len(dataCodewords) = 15 * 20 + 16 * 61
  /\ Len(SplitBlocks(dataCodewords, DATA_CODEWORDS_PER_BLOCK[version][ecLevel + 1])[81]) = 16

-----------------------------------------------------------------------------
(* Properties of the adjacency score (specification Spec)                  *)

\* Module p of line j of the matrix: of row j, or of column j.
LineValue(qr, row, j, p) ==
  IF row THEN qr[j][p].value ELSE qr[p][j].value

\* The length of the maximal run of line j that ends at module t, or 0 when
\* no maximal run ends there.
RunEndingAt(qr, row, j, t) ==
  IF t < Size(qr) - 1 /\ LineValue(qr, row, j, t + 1) = LineValue(qr, row, j, t)
    THEN 0
  ELSE LET s == CHOOSE s \in 0..t :
                  /\ s = 0 \/ LineValue(qr, row, j, s - 1) # LineValue(qr, row, j, s)
                  /\ \A u \in s..t : LineValue(qr, row, j, u) = LineValue(qr, row, j, t)
       IN  t - s + 1

\* 3 + (runLength - 5) for every maximal run of at least 5 modules of line j
\* that ends at one of the modules lo..hi.
RECURSIVE RunPenalty(_, _, _, _, _)
RunPenalty(qr, row, j, lo, hi) ==
  IF lo > hi THEN 0
  ELSE IF lo = hi
    THEN LET runLength == RunEndingAt(qr, row, j, lo)
         IN  IF runLength >= 5 THEN 3 + (runLength - 5) ELSE 0
  ELSE RunPenalty(qr, row, j, lo, (lo + hi) \div 2)
         + RunPenalty(qr, row, j, (lo + hi) \div 2 + 1, hi)

\* The sum of the run penalties of the lines lo..hi.
RECURSIVE LinePenalty(_, _, _, _)
LinePenalty(qr, row, lo, hi) ==
  IF lo > hi THEN 0
  ELSE IF lo = hi THEN RunPenalty(qr, row, lo, 0, Size(qr) - 1)
  ELSE LinePenalty(qr, row, lo, (lo + hi) \div 2)
         + LinePenalty(qr, row, (lo + hi) \div 2 + 1, hi)

\* C16: for each of the eight masked matrices that applyDataMask scores,
\* the adjacency part of the score is the sum, over every row and every
\* column, of 3 + (runLength - 5) for each maximal run of at least 5 modules
\* of one colour in that line: runs are counted per line, a run that
\* reaches the last module of its line is scored, and nothing is carried
\* from one line into the next or from the rows into the columns.
C16_AdjacencyPerLine ==
  pc = "applyDataMask" =>
    \A i \in 0..7 :
       LET qr == MaskedCopy(qrCode, i)
           n == Size(qr)
       IN  ScoreAdjacency(qr)
             = LinePenalty(qr, TRUE, 0, n - 1) + LinePenalty(qr, FALSE, 0, n - 1)

\* applyDataMask is about to score a matrix whose top row ends with the
\* seven dark modules of a finder pattern, a run that reaches the last
\* module of its line, and whose next row begins with a dark module.
C16_Witness ==
  /\ pc = "applyDataMask"
  /\ Size(qrCode) = 25
  /\ RunEndingAt(MaskedCopy(qrCode, 0), TRUE, 0, 24) = 7
  /\ LineValue(MaskedCopy(qrCode, 0), TRUE, 1, 0)
  /\ ScoreAdjacency(MaskedCopy(qrCode, 0)) > 0
=============================================================================
